---- MODULE Spec2Model ----
(***************************************************************************)
(* Patient intake chatbot: the conversation state machine                  *)
(* (state_machine.py), the turn dispatcher (main.py) and the repository    *)
(* operations it calls (patient_repository.py, provider_repository.py).    *)
(*                                                                         *)
(* Python values are encoded as tuples of strings so that every slot value *)
(* has one TLA+ type: a str is the tuple of its characters ("" is << >>),  *)
(* None is <<"None">>, True/False are <<"True">>/<<"False">>, an int n is  *)
(* <<"int", digits>>.  A character is a one-character string, so the       *)
(* encodings never collide.                                                *)
(***************************************************************************)
EXTENDS Integers, Sequences, FiniteSets, TLC

VARIABLES state, patients, change_log, visits, appointments, providers, log, mrg, bk, fn

vars == <<state, patients, change_log, visits, appointments, providers, log, mrg, bk, fn>>

----------------------------------------------------------------------------
(* Python values *)

None == <<"None">>
PyTrue == <<"True">>
PyFalse == <<"False">>
EmptyStr == << >>

Digits == {"0", "1", "2", "3", "4", "5", "6", "7", "8", "9"}
UpperAZ == {"A", "B", "C", "D", "E", "F", "G", "H", "I", "J", "K", "L", "M", "N", "O", "P", "Q", "R", "S", "T", "U", "V", "W", "X", "Y", "Z"}

\* Python truthiness: None, False, "" and 0 are falsy.
Truthy(v) == v \notin {None, PyFalse, EmptyStr, <<"int", "0">>}

\* str.isdigit(): non-empty and every character a digit.
IsDigitStr(s) == Len(s) > 0 /\ \A i \in 1..Len(s) : s[i] \in Digits

\* s.replace(c, ""): s without every occurrence of the character c.
RECURSIVE RemoveChar(_, _)
RemoveChar(s, c) ==
    IF s = << >> THEN << >>
    ELSE IF Head(s) = c THEN RemoveChar(Tail(s), c)
    ELSE <<Head(s)>> \o RemoveChar(Tail(s), c)

----------------------------------------------------------------------------
(* state_machine.py *)

GREET == "greet"
CHECK_PATIENT == "check_patient"
VERIFY_DOB == "verify_dob"
CONFIRM_RETURNING == "confirm_returning"
COLLECT_PATIENT == "collect_patient"
CONFIRM_PATIENT == "confirm_patient"
COLLECT_INSURANCE == "collect_insurance"
CONFIRM_INSURANCE == "confirm_insurance"
COLLECT_ADDRESS == "collect_address"
VALIDATE_ADDRESS == "validate_address"
CONFIRM_ADDRESS == "confirm_address"
COLLECT_MEDICAL == "collect_medical"
QUERY_PROVIDERS == "query_providers"
SELECT_PROVIDER == "select_provider"
SELECT_TIME == "select_time"
CONFIRM == "confirm"
END == "end"

\* The State enum, in declaration order.
StateOrder == <<GREET, CHECK_PATIENT, VERIFY_DOB, CONFIRM_RETURNING, COLLECT_PATIENT, CONFIRM_PATIENT, COLLECT_INSURANCE, CONFIRM_INSURANCE, COLLECT_ADDRESS, VALIDATE_ADDRESS, CONFIRM_ADDRESS, COLLECT_MEDICAL, QUERY_PROVIDERS, SELECT_PROVIDER, SELECT_TIME, CONFIRM, END>>

States == {StateOrder[i] : i \in 1..Len(StateOrder)}

\* PHASE_REQUIREMENTS: the ordered required slots of a phase; << >> for a
\* phase that is not a key of the table.
PHASE_REQUIREMENTS(phase) ==
    CASE phase = COLLECT_PATIENT -> <<"first_name", "last_name", "date_of_birth", "phone">>
      [] phase = COLLECT_INSURANCE -> <<"insurance_payer", "insurance_member_id">>
      [] phase = COLLECT_ADDRESS -> <<"address_line1", "city", "state", "zip_code">>
      [] phase = COLLECT_MEDICAL -> <<"chief_complaint">>
      [] OTHER -> << >>

\* The keys of ConversationState.slots, in insertion order.
SlotOrder == <<"first_name", "last_name", "date_of_birth", "phone", "email", "address_line1", "address_line2", "city", "state", "zip_code", "address_validated", "insurance_payer", "insurance_plan", "insurance_member_id", "insurance_group_id", "chief_complaint", "symptoms", "symptom_duration", "severity">>

SlotNames == {SlotOrder[i] : i \in 1..Len(SlotOrder)}

\* The default slots of a new ConversationState: every slot None except
\* address_validated, which the dataclass initialises to False.
InitialSlots == [k \in SlotNames |-> IF k = "address_validated" THEN PyFalse ELSE None]

\* ConversationState() as the dataclass constructs it.
NewConversationState ==
    [current_state |-> GREET,
     patient_id |-> None,
     is_returning |-> FALSE,
     slots |-> InitialSlots,
     address_validation_attempts |-> 0,
     pending_address_suggestion |-> None,
     pending_name_matches |-> << >>,
     matched_providers |-> << >>,
     selected_provider_id |-> None,
     selected_provider_name |-> None,
     available_slots |-> << >>,
     selected_appointment_id |-> None,
     selected_date |-> None,
     selected_time |-> None]

\* re.match(r"^\d{4}-\d{2}-\d{2}$", value)
MatchesDobShape(s) ==
    /\ Len(s) = 10
    /\ \A i \in {1, 2, 3, 4, 6, 7, 9, 10} : s[i] \in Digits
    /\ s[5] = "-"
    /\ s[8] = "-"

\* ConversationState._is_valid_slot
_is_valid_slot(slot, value) ==
    IF ~Truthy(value) THEN FALSE
    ELSE IF slot = "phone"
        THEN Len(value) > 0 /\ IsDigitStr(RemoveChar(RemoveChar(value, "-"), " "))
    ELSE IF slot = "date_of_birth" THEN MatchesDobShape(value)
    ELSE IF slot = "zip_code" THEN IsDigitStr(value)
    ELSE TRUE

\* A missing-slot scan that tests presence only and skips the validity check.
get_missing_slots_presence_only(slots, phase) ==
    LET req == PHASE_REQUIREMENTS(phase)
        isMissing(slot) == ~Truthy(slots[slot])
    IN SelectSeq(req, isMissing)

\* ConversationState.get_missing_slots
get_missing_slots(slots, phase) ==
    LET req == PHASE_REQUIREMENTS(phase)
        isMissing(slot) == ~Truthy(slots[slot]) \/ ~_is_valid_slot(slot, slots[slot])
    IN SelectSeq(req, isMissing)

\* ConversationState.is_phase_complete
is_phase_complete(slots, phase) == Len(get_missing_slots(slots, phase)) = 0

\* A merge that reports a change without writing the slot.
RECURSIVE merge_slots_unwritten(_, _)
merge_slots_unwritten(slots, extracted) ==
    IF extracted = << >> THEN [slots |-> slots, changed |-> << >>]
    ELSE LET key == Head(extracted)[1]
             value == Head(extracted)[2]
             hit == value # None /\ key \in DOMAIN slots /\ slots[key] # value
             rest == merge_slots_unwritten(slots, Tail(extracted))
         IN [slots |-> rest.slots, changed |-> (IF hit THEN <<key>> ELSE << >>) \o rest.changed]

\* A merge that drops a provided value failing the validity predicate.
RECURSIVE merge_slots_valid_only(_, _)
merge_slots_valid_only(slots, extracted) ==
    IF extracted = << >> THEN [slots |-> slots, changed |-> << >>]
    ELSE LET key == Head(extracted)[1]
             value == Head(extracted)[2]
             hit == value # None /\ key \in DOMAIN slots /\ slots[key] # value /\ _is_valid_slot(key, value)
             slots1 == IF hit THEN [slots EXCEPT ![key] = value] ELSE slots
             rest == merge_slots_valid_only(slots1, Tail(extracted))
         IN [slots |-> rest.slots, changed |-> (IF hit THEN <<key>> ELSE << >>) \o rest.changed]

\* ConversationState.merge_slots over the extracted dict, given as the
\* sequence of its <<key, value>> items in iteration order.  Returns the new
\* slots and the list of changed keys.
RECURSIVE merge_slots(_, _)
merge_slots(slots, extracted) ==
    IF extracted = << >> THEN [slots |-> slots, changed |-> << >>]
    ELSE LET key == Head(extracted)[1]
             value == Head(extracted)[2]
             hit == value # None /\ key \in DOMAIN slots /\ slots[key] # value
             slots1 == IF hit THEN [slots EXCEPT ![key] = value] ELSE slots
             rest == merge_slots(slots1, Tail(extracted))
         IN [slots |-> rest.slots,
             changed |-> (IF hit THEN <<key>> ELSE << >>) \o rest.changed]

\* A transition function that treats a failed validation (False) like no
\* validation at all.
get_next_state_validated_truthy(st) ==
    LET current == st.current_state
    IN CASE current = GREET -> CHECK_PATIENT
         [] current = CHECK_PATIENT ->
              IF st.is_returning THEN CONFIRM_RETURNING ELSE COLLECT_PATIENT
         [] current = CONFIRM_RETURNING -> COLLECT_MEDICAL
         [] current \in {COLLECT_PATIENT, COLLECT_INSURANCE, COLLECT_ADDRESS, COLLECT_MEDICAL} ->
              IF ~is_phase_complete(st.slots, current) THEN current
              ELSE StateOrder[(CHOOSE i \in 1..Len(StateOrder) : StateOrder[i] = current) + 1]
         [] current = CONFIRM_PATIENT -> COLLECT_INSURANCE
         [] current = CONFIRM_INSURANCE -> COLLECT_ADDRESS
         [] current = VALIDATE_ADDRESS ->
              IF Truthy(st.slots["address_validated"]) THEN CONFIRM_ADDRESS ELSE COLLECT_ADDRESS
         [] current = CONFIRM_ADDRESS -> COLLECT_MEDICAL
         [] current = QUERY_PROVIDERS ->
              IF st.matched_providers # << >> THEN SELECT_PROVIDER ELSE QUERY_PROVIDERS
         [] current = SELECT_PROVIDER ->
              IF Truthy(st.selected_provider_id) THEN SELECT_TIME ELSE SELECT_PROVIDER
         [] current = SELECT_TIME ->
              IF Truthy(st.selected_appointment_id) THEN CONFIRM ELSE SELECT_TIME
         [] OTHER -> END

\* get_next_state
get_next_state(st) ==
    LET current == st.current_state
    IN CASE current = GREET -> CHECK_PATIENT
         [] current = CHECK_PATIENT ->
              IF st.is_returning THEN CONFIRM_RETURNING ELSE COLLECT_PATIENT
         [] current = CONFIRM_RETURNING -> COLLECT_MEDICAL
         [] current = COLLECT_PATIENT ->
              IF is_phase_complete(st.slots, COLLECT_PATIENT) THEN CONFIRM_PATIENT ELSE COLLECT_PATIENT
         [] current = CONFIRM_PATIENT -> COLLECT_INSURANCE
         [] current = COLLECT_INSURANCE ->
              IF is_phase_complete(st.slots, COLLECT_INSURANCE) THEN CONFIRM_INSURANCE ELSE COLLECT_INSURANCE
         [] current = CONFIRM_INSURANCE -> COLLECT_ADDRESS
         [] current = COLLECT_ADDRESS ->
              IF is_phase_complete(st.slots, COLLECT_ADDRESS) THEN VALIDATE_ADDRESS ELSE COLLECT_ADDRESS
         [] current = VALIDATE_ADDRESS ->
              IF st.slots["address_validated"] # None THEN CONFIRM_ADDRESS ELSE COLLECT_ADDRESS
         [] current = CONFIRM_ADDRESS -> COLLECT_MEDICAL
         [] current = COLLECT_MEDICAL ->
              IF is_phase_complete(st.slots, COLLECT_MEDICAL) THEN QUERY_PROVIDERS ELSE COLLECT_MEDICAL
         [] current = QUERY_PROVIDERS ->
              IF st.matched_providers # << >> THEN SELECT_PROVIDER ELSE QUERY_PROVIDERS
         [] current = SELECT_PROVIDER ->
              IF Truthy(st.selected_provider_id) THEN SELECT_TIME ELSE SELECT_PROVIDER
         [] current = SELECT_TIME ->
              IF Truthy(st.selected_appointment_id) THEN CONFIRM ELSE SELECT_TIME
         [] current = CONFIRM -> END
         [] OTHER -> END

\* A call that stores the phase it computed into the state it was given.
CallGetNextStateStoring(st) ==
    LET next == get_next_state(st)
    IN [st |-> [st EXCEPT !.current_state = next], returned |-> next]

\* One call get_next_state(state): the state object after the call and the
\* value returned.  The body reads state.current_state, is_returning, slots,
\* matched_providers and the two selections, and assigns nothing.
CallGetNextState(st) == [st |-> st, returned |-> get_next_state(st)]


----------------------------------------------------------------------------
(* String helpers used by the repositories and the address parser *)

UpperSeq == <<"A", "B", "C", "D", "E", "F", "G", "H", "I", "J", "K", "L", "M", "N", "O", "P", "Q", "R", "S", "T", "U", "V", "W", "X", "Y", "Z">>
LowerSeq == <<"a", "b", "c", "d", "e", "f", "g", "h", "i", "j", "k", "l", "m", "n", "o", "p", "q", "r", "s", "t", "u", "v", "w", "x", "y", "z">>

\* The characters of the model's strings in code-point order.
Alphabet == <<" ", "\"", ",", "-", ".", "/">> \o <<"0", "1", "2", "3", "4", "5", "6", "7", "8", "9", ":">> \o UpperSeq \o <<"[", "]">> \o LowerSeq

Rank(c) == CHOOSE i \in 1..Len(Alphabet) : Alphabet[i] = c

LowerChar(c) == IF c \in UpperAZ THEN LowerSeq[CHOOSE i \in 1..Len(UpperSeq) : UpperSeq[i] = c] ELSE c
UpperChar(c) == IF \E i \in 1..Len(LowerSeq) : LowerSeq[i] = c THEN UpperSeq[CHOOSE i \in 1..Len(LowerSeq) : LowerSeq[i] = c] ELSE c

\* str.lower() / str.upper() / SQL LOWER()
Lower(s) == [i \in 1..Len(s) |-> LowerChar(s[i])]
Upper(s) == [i \in 1..Len(s) |-> UpperChar(s[i])]

\* str.isalpha()
IsAlphaStr(s) == Len(s) > 0 /\ \A i \in 1..Len(s) : UpperChar(s[i]) \in UpperAZ

\* a <= b in code-point (lexicographic) order, as SQLite compares TEXT.
RECURSIVE StrLeq(_, _)
StrLeq(a, b) ==
    IF a = << >> THEN TRUE
    ELSE IF b = << >> THEN FALSE
    ELSE IF Head(a) = Head(b) THEN StrLeq(Tail(a), Tail(b))
    ELSE Rank(Head(a)) < Rank(Head(b))

\* SQL "text LIKE '%pat%'" (case-insensitive for ASCII); the patterns of the
\* model hold no % or _ wildcard of their own.
LikeContains(text, pat) ==
    \E i \in 0..(Len(text) - Len(pat)) : Lower(SubSeq(text, i + 1, i + Len(pat))) = Lower(pat)

\* str.strip(): leading and trailing blanks removed.
RECURSIVE LStrip(_)
LStrip(s) == IF s # << >> /\ Head(s) = " " THEN LStrip(Tail(s)) ELSE s
RECURSIVE RStrip(_)
RStrip(s) == IF s # << >> /\ s[Len(s)] = " " THEN RStrip(SubSeq(s, 1, Len(s) - 1)) ELSE s
Strip(s) == RStrip(LStrip(s))

\* str.split(","): the pieces between commas, as a sequence of strings.
RECURSIVE SplitComma(_)
SplitComma(s) ==
    IF \A i \in 1..Len(s) : s[i] # "," THEN <<s>>
    ELSE LET k == CHOOSE i \in 1..Len(s) : s[i] = "," /\ \A j \in 1..(i - 1) : s[j] # ","
         IN <<SubSeq(s, 1, k - 1)>> \o SplitComma(SubSeq(s, k + 1, Len(s)))

----------------------------------------------------------------------------
(* Data of the model: the values users give and the rows the store holds *)

S_Jane == <<"J", "a", "n", "e">>
S_Smith == <<"S", "m", "i", "t", "h">>
S_Al == <<"A", "l">>
S_Ng == <<"N", "g">>
DOB_A == <<"1", "9", "8", "8", "-", "0", "5", "-", "2", "0">>
DOB_C == <<"1", "9", "9", "0", "-", "0", "1", "-", "0", "1">>
DOB_BAD == <<"5", "/", "2", "0">>
PHONE_A == <<"5", "5", "5", "9", "8", "7", "6", "5", "4", "3">>
PHONE_B == <<"5", "5", "5", "1", "1", "1", "2", "2", "2", "2">>
PHONE_C == <<"5", "5", "5", "3", "3", "3", "4", "4", "4", "4">>
LINE1_A == <<"1", " ", "M", "a", "i", "n", " ", "S", "t">>
CITY_A == <<"O", "a", "k", "l", "a", "n", "d">>
CITY_B == <<"A", "l", "b", "a", "n", "y">>
ST_CA == <<"C", "A">>
ZIP_A == <<"9", "4", "6", "1", "2">>
ZIP_BAD == <<"9", "4", "6", "1", "A">>
INS_A == <<"A", "e", "t", "n", "a">>
MEM_A == <<"M", "1">>
PLAN_A == <<"P", "P", "O">>
CC_A == <<"c", "o", "u", "g", "h">>
ID_P1 == <<"p", "1">>
ID_P2 == <<"p", "2">>
ID_NEW == <<"n", "e", "w">>
ID_OTHER == <<"o", "t", "h", "e", "r">>
ID_V1 == <<"v", "1">>
ID_PROV1 == <<"p", "r", "o", "v", "1">>
ID_PROV2 == <<"p", "r", "o", "v", "2">>
ID_A0 == <<"a", "0">>
ID_A1 == <<"a", "1">>
ID_A2 == <<"a", "2">>
ID_NOWHERE == <<"z", "z">>
NAME_PROV1 == <<"D", "r", ".", " ", "A">>
NAME_PROV2 == <<"D", "r", ".", " ", "B">>
SPEC_GP == <<"G", "P">>
JSON_INS_1 == <<"[", "\"", "A", "e", "t", "n", "a", "\"", ",", " ", "\"", "C", "i", "g", "n", "a", "\"", "]">>
JSON_INS_2 == <<"[", "\"", "C", "i", "g", "n", "a", "\"", "]">>
JSON_COND_1 == <<"[", "\"", "c", "o", "u", "g", "h", "\"", "]">>
JSON_COND_2 == <<"[", "\"", "r", "a", "s", "h", "\"", "]">>
DATE_PAST == <<"2", "0", "2", "6", "-", "1", "1", "-", "0", "1">>
DATE_1 == <<"2", "0", "2", "6", "-", "1", "1", "-", "1", "0">>
DATE_2 == <<"2", "0", "2", "6", "-", "1", "1", "-", "1", "2">>
TIME_AM == <<"0", "9", ":", "0", "0">>
TIME_PM == <<"1", "4", ":", "3", "0">>
\* datetime.now().strftime("%Y-%m-%d") on the day of the session
Today == <<"2", "0", "2", "6", "-", "1", "1", "-", "0", "6">>
SUGG_OK == <<"1", " ", "M", "a", "i", "n", " ", "S", "t", ",", " ", "O", "a", "k", "l", "a", "n", "d", ",", " ", "C", "A", " ", "9", "4", "6", "1", "2", ",", " ", "U", "S", "A">>
SUGG_BAD == <<"O", "a", "k", "l", "a", "n", "d", " ", "C", "A">>


----------------------------------------------------------------------------
(* patient_repository.py *)

\* PatientRepository.PATIENT_FIELDS, in order.
PATIENT_FIELDS == <<"first_name", "last_name", "date_of_birth", "phone", "email", "address_line1", "address_line2", "city", "state", "zip_code", "address_validated", "insurance_payer", "insurance_plan", "insurance_member_id", "insurance_group_id">>

PatientFieldSet == {PATIENT_FIELDS[i] : i \in 1..Len(PATIENT_FIELDS)}

\* The NOT NULL columns of the patients table (schema.py).
PatientNotNull == {"first_name", "last_name", "date_of_birth", "phone"}

\* The fields a chatbot session never stores in the patients table.
MedicalFields == {"chief_complaint", "symptoms", "symptom_duration", "severity"}

\* The index of the first element of seq that satisfies Test, 0 if none
\* (cursor.fetchone() on a SELECT without ORDER BY: rows in rowid order).
FirstIndex(seq, Test(_)) ==
    IF \E i \in 1..Len(seq) : Test(seq[i])
    THEN CHOOSE i \in 1..Len(seq) : Test(seq[i]) /\ \A j \in 1..(i - 1) : ~Test(seq[j])
    ELSE 0

\* A lookup that tries name and date of birth before phone and email.
find_existing_patient_name_first(pts, phone, email, first_name, last_name, date_of_birth) ==
    LET byPhone(r) == r.phone = phone
        byEmail(r) == r.email = email
        byName(r) == r.first_name = first_name /\ r.last_name = last_name /\ r.date_of_birth = date_of_birth
        i1 == IF Truthy(phone) THEN FirstIndex(pts, byPhone) ELSE 0
        i2 == IF Truthy(email) THEN FirstIndex(pts, byEmail) ELSE 0
        i3 == IF Truthy(first_name) /\ Truthy(last_name) /\ Truthy(date_of_birth) THEN FirstIndex(pts, byName) ELSE 0
    IN IF i3 # 0 THEN <<pts[i3]>>
       ELSE IF i1 # 0 THEN <<pts[i1]>>
       ELSE IF i2 # 0 THEN <<pts[i2]>>
       ELSE << >>

\* PatientRepository.find_existing_patient: phone, then email, then
\* first name + last name + date of birth.  Returns <<row>>, or << >> for None.
find_existing_patient(pts, phone, email, first_name, last_name, date_of_birth) ==
    LET byPhone(r) == r.phone = phone
        byEmail(r) == r.email = email
        byName(r) == r.first_name = first_name /\ r.last_name = last_name /\ r.date_of_birth = date_of_birth
        i1 == IF Truthy(phone) THEN FirstIndex(pts, byPhone) ELSE 0
        i2 == IF Truthy(email) THEN FirstIndex(pts, byEmail) ELSE 0
        i3 == IF Truthy(first_name) /\ Truthy(last_name) /\ Truthy(date_of_birth) THEN FirstIndex(pts, byName) ELSE 0
    IN IF i1 # 0 THEN <<pts[i1]>>
       ELSE IF i2 # 0 THEN <<pts[i2]>>
       ELSE IF i3 # 0 THEN <<pts[i3]>>
       ELSE << >>

\* PatientRepository.find_patients_by_name: case-insensitive name match.
find_patients_by_name(pts, first_name, last_name) ==
    LET hit(r) == Lower(r.first_name) = Lower(first_name) /\ Lower(r.last_name) = Lower(last_name)
    IN SelectSeq(pts, hit)

\* The audit rows _log_change writes for the fields in seq whose value in
\* row is not None (CREATE) .
RECURSIVE CreateLog(_, _)
CreateLog(row, fields) ==
    IF fields = << >> THEN << >>
    ELSE (IF row[Head(fields)] # None
          THEN <<[patient_id |-> row.id, field_name |-> Head(fields), change_type |-> "CREATE"]>>
          ELSE << >>) \o CreateLog(row, Tail(fields))

\* PatientRepository.create: INSERT plus one audit row per non-null field.
\* The INSERT fails (sqlite3.IntegrityError) when a NOT NULL column is None,
\* and int(patient.address_validated) fails (TypeError) on None.
create(pts, clog, patient) ==
    IF (\E f \in PatientNotNull : patient[f] = None) \/ patient.address_validated = None
    THEN [ok |-> FALSE, patients |-> pts, change_log |-> clog]
    ELSE [ok |-> TRUE, patients |-> Append(pts, patient), change_log |-> clog \o CreateLog(patient, PATIENT_FIELDS)]

\* bool(value) for the address_validated comparison of update().
PyBool(v) == IF Truthy(v) THEN PyTrue ELSE PyFalse

\* PatientRepository.update: the fields of updates (a sequence of
\* <<field, value>>) that are patient fields and differ from the stored row are
\* written and audited; an unknown id changes nothing.
RECURSIVE ApplyUpdates(_, _)
ApplyUpdates(row, updates) ==
    IF updates = << >> THEN [row |-> row, changed |-> << >>]
    ELSE LET f == Head(updates)[1]
             raw == Head(updates)[2]
             isField == f \in PatientFieldSet
             old == IF ~isField THEN None ELSE IF f = "address_validated" THEN PyBool(row[f]) ELSE row[f]
             new == IF f = "address_validated" THEN PyBool(raw) ELSE raw
             hit == isField /\ old # new
             row1 == IF hit THEN [row EXCEPT ![f] = new] ELSE row
             rest == ApplyUpdates(row1, Tail(updates))
         IN [row |-> rest.row, changed |-> (IF hit THEN <<f>> ELSE << >>) \o rest.changed]

update(pts, clog, patient_id, updates) ==
    LET hasId(r) == r.id = patient_id
        i == FirstIndex(pts, hasId)
    IN IF i = 0 THEN [patients |-> pts, change_log |-> clog]
       ELSE LET res == ApplyUpdates(pts[i], updates)
            IN [patients |-> [pts EXCEPT ![i] = res.row],
                change_log |-> clog \o [k \in 1..Len(res.changed) |-> [patient_id |-> patient_id, field_name |-> res.changed[k], change_type |-> "UPDATE"]]]

\* PatientRepository.create_visit
create_visit(vs, patient_id, chief_complaint, symptoms, symptom_duration, severity) ==
    LET visit == [id |-> ID_V1, patient_id |-> patient_id, chief_complaint |-> chief_complaint, symptoms |-> symptoms, symptom_duration |-> symptom_duration, severity |-> severity, status |-> "pending"]
    IN [visits |-> Append(vs, visit), visit |-> visit]

----------------------------------------------------------------------------
(* provider_repository.py *)

\* The element of seq (non-empty) that Before puts first; ties keep the
\* earlier row.
FirstBy(seq, Before(_, _)) ==
    CHOOSE i \in 1..Len(seq) :
        /\ \A j \in 1..Len(seq) : ~Before(seq[j], seq[i]) \/ j = i
        /\ \A j \in 1..(i - 1) : Before(seq[i], seq[j])

\* seq without its i-th element.
Without(seq, i) == SubSeq(seq, 1, i - 1) \o SubSeq(seq, i + 1, Len(seq))

\* ORDER BY rating DESC
BetterRated(a, b) == a.rating > b.rating
RECURSIVE OrderByRatingDesc(_)
OrderByRatingDesc(seq) ==
    IF seq = << >> THEN << >>
    ELSE LET i == FirstBy(seq, BetterRated)
         IN <<seq[i]>> \o OrderByRatingDesc(Without(seq, i))

\* ORDER BY date, time
EarlierSlot(a, b) ==
    IF a.date = b.date THEN a.time # b.time /\ StrLeq(a.time, b.time)
    ELSE StrLeq(a.date, b.date)
RECURSIVE OrderByDateTime(_)
OrderByDateTime(seq) ==
    IF seq = << >> THEN << >>
    ELSE LET i == FirstBy(seq, EarlierSlot)
         IN <<seq[i]>> \o OrderByDateTime(Without(seq, i))

\* LIMIT n
Limit(seq, n) == SubSeq(seq, 1, IF Len(seq) < n THEN Len(seq) ELSE n)

\* ProviderRepository.find_providers (specialty is never passed by the
\* dispatcher): accepting providers that pass the given filters, best rating
\* first, at most limit rows.
find_providers(provs, insurance, condition, limit) ==
    LET keep(r) ==
            /\ r.accepting_new_patients
            /\ (Truthy(insurance) => LikeContains(r.insurance_accepted, insurance))
            /\ (Truthy(condition) => LikeContains(r.conditions_treated, condition))
    IN Limit(OrderByRatingDesc(SelectSeq(provs, keep)), limit)

\* ProviderRepository.get_available_slots: the provider's unbooked slots from
\* today on, ordered by date and time.
get_available_slots(appts, provider_id, limit) ==
    LET keep(r) ==
            /\ r.provider_id = provider_id
            /\ r.patient_id = None
            /\ r.status = "available"
            /\ StrLeq(Today, r.date)
    IN Limit(OrderByDateTime(SelectSeq(appts, keep)), limit)

\* ProviderRepository.get_appointment_by_id: <<row>>, or << >> for None.
get_appointment_by_id(appts, appointment_id) ==
    LET hasId(r) == r.id = appointment_id
        i == FirstIndex(appts, hasId)
    IN IF i = 0 THEN << >> ELSE <<appts[i]>>

\* A WHERE clause that looks at the id alone.
BookWhereIdOnly(r, appointment_id) == r.id = appointment_id

\* The WHERE clause of book_appointment's UPDATE.
BookWhere(r, appointment_id) ==
    r.id = appointment_id /\ r.patient_id = None /\ r.status = "available"

\* book_appointment's UPDATE statement: one conditional update; rowcount is
\* the number of rows it changed.
BookUpdate(appts, appointment_id, patient_id, visit_id, reason) ==
    [appointments |-> [i \in 1..Len(appts) |->
                          IF BookWhere(appts[i], appointment_id)
                          THEN [appts[i] EXCEPT !.patient_id = patient_id, !.visit_id = visit_id, !.status = "booked", !.reason = reason]
                          ELSE appts[i]],
     rowcount |-> Cardinality({i \in 1..Len(appts) : BookWhere(appts[i], appointment_id)})]

\* ProviderRepository.book_appointment run to completion: << >> (None) when
\* the UPDATE changed no row, else <<row>>, the row as re-read.
book_appointment(appts, appointment_id, patient_id, visit_id, reason) ==
    LET upd == BookUpdate(appts, appointment_id, patient_id, visit_id, reason)
    IN IF upd.rowcount = 0
       THEN [appointments |-> appts, result |-> << >>]
       ELSE [appointments |-> upd.appointments, result |-> get_appointment_by_id(upd.appointments, appointment_id)]


----------------------------------------------------------------------------
(* address_validator.py *)

\* What the address service call can come to when the service answers with a
\* JSON body or the call ends in an AddressValidationError: kind "error" is
\* any of the failures of AddressValidationErrors, the others a verdict with
\* an optional formatted address.
ApiOutcomes ==
    {[kind |-> "error", is_valid |-> FALSE, formatted_address |-> None],
     [kind |-> "ok", is_valid |-> TRUE, formatted_address |-> SUGG_OK],
     [kind |-> "ok", is_valid |-> TRUE, formatted_address |-> None],
     [kind |-> "ok", is_valid |-> FALSE, formatted_address |-> SUGG_OK],
     [kind |-> "ok", is_valid |-> FALSE, formatted_address |-> SUGG_BAD]}

\* The outcome handed to a handler from which no validation call can follow.
ApiUnused == [kind |-> "error", is_valid |-> FALSE, formatted_address |-> None]

\* validate_address_raw: the failures it raises as AddressValidationError
\* (Timeout, ConnectionError, no API key, status 400, 403, any other non-200
\* status, a JSON body without "result") ...
AddressValidationErrors ==
    {"error", "timeout", "connection_error", "no_api_key", "status_400", "status_403",
     "status_other", "no_result_key"}

\* ... and the failures that leave it as another exception: response.json()
\* on a 200 body that is not JSON, and a requests exception that is neither a
\* Timeout nor a ConnectionError.
OtherExceptions == {"body_not_json", "request_exception"}

\* validate_address: the service's verdict as an AddressValidationResult; the
\* corrected components are the caller's own components when the service
\* returned a formatted address; an AddressValidationError becomes an invalid
\* result with no suggestion; any other exception is not caught.
validate_address(address_line1, city, st, zip_code, api) ==
    IF api.kind \in OtherExceptions
    THEN [raised |-> TRUE, is_valid |-> FALSE, suggested_address |-> None, corrected_components |-> << >>]
    ELSE IF api.kind \in AddressValidationErrors
    THEN [raised |-> FALSE, is_valid |-> FALSE, suggested_address |-> None, corrected_components |-> << >>]
    ELSE [raised |-> FALSE,
          is_valid |-> api.is_valid,
          suggested_address |-> api.formatted_address,
          corrected_components |->
              IF Truthy(api.formatted_address)
              THEN <<<<"address_line1", address_line1>>, <<"city", city>>, <<"state", st>>, <<"zip_code", zip_code>>>>
              ELSE << >>]

----------------------------------------------------------------------------
(* main.py: parse_suggested_address *)

CountryNames == {<<"u", "s", "a">>, <<"u", "s">>, <<"u", "n", "i", "t", "e", "d", " ", "s", "t", "a", "t", "e", "s">>}

\* Whether t matches ,?\s*(USA|US|United States) in full, ignoring case.
MatchesCountryTail(t) ==
    LET t1 == IF t # << >> /\ Head(t) = "," THEN Tail(t) ELSE t
    IN Lower(LStrip(t1)) \in CountryNames

\* re.sub(r",?\s*(USA|US|United States)$", "", s, flags=re.IGNORECASE): the
\* leftmost suffix that matches is removed.
RemoveCountrySuffix(s) ==
    IF \E i \in 1..Len(s) : MatchesCountryTail(SubSeq(s, i, Len(s)))
    THEN LET k == CHOOSE i \in 1..Len(s) :
                      /\ MatchesCountryTail(SubSeq(s, i, Len(s)))
                      /\ \A j \in 1..(i - 1) : ~MatchesCountryTail(SubSeq(s, j, Len(s)))
         IN SubSeq(s, 1, k - 1)
    ELSE s

\* re.match(r"^([A-Z]{2})\s+(\d{5})(?:-\d{4})?$", state_zip)
MatchesStateZip(sz) ==
    /\ Len(sz) >= 8
    /\ sz[1] \in UpperAZ /\ sz[2] \in UpperAZ
    /\ sz[3] = " "
    /\ LET rest == LStrip(SubSeq(sz, 3, Len(sz)))
       IN /\ Len(rest) \in {5, 10}
          /\ IsDigitStr(SubSeq(rest, 1, 5))
          /\ Len(rest) = 10 => rest[6] = "-" /\ IsDigitStr(SubSeq(rest, 7, 10))

\* parse_suggested_address: the components as the items of a dict (never
\* empty), or << >> for None.
parse_suggested_address(suggested) ==
    LET s == RemoveCountrySuffix(Strip(suggested))
        raw == SplitComma(s)
        parts == [i \in 1..Len(raw) |-> Strip(raw[i])]
    IN IF Len(parts) < 3 THEN << >>
       ELSE LET state_zip == Strip(parts[3])
                head == <<<<"address_line1", parts[1]>>, <<"city", parts[2]>>>>
            IN IF MatchesStateZip(state_zip)
               THEN head \o <<<<"state", SubSeq(state_zip, 1, 2)>>, <<"zip_code", SubSeq(LStrip(SubSeq(state_zip, 3, Len(state_zip))), 1, 5)>>>>
               ELSE IF Len(state_zip) = 2 /\ IsAlphaStr(state_zip)
               THEN head \o <<<<"state", Upper(state_zip)>>>>
               ELSE << >>

\* dict.update: every item is written, None included.
RECURSIVE SlotsUpdate(_, _)
SlotsUpdate(slots, items) ==
    IF items = << >> THEN slots
    ELSE SlotsUpdate([slots EXCEPT ![Head(items)[1]] = Head(items)[2]], Tail(items))


----------------------------------------------------------------------------
(* main.py: the turn dispatcher.                                           *)
(* A handler is an operator from a turn context to a turn context.  The    *)
(* context holds the ConversationState (st), the tables of the store, and  *)
(* what the turn did: every assignment to current_state (writes, with the  *)
(* phase get_next_state gave just before it), the address validations run, *)
(* the provider queries, the repository writes (saves), the reply parts,   *)
(* and whether an exception left the handler (raised).                     *)

Ctx(st, pts, clog, vs, appts) ==
    [st |-> st, patients |-> pts, change_log |-> clog, visits |-> vs, appointments |-> appts,
     writes |-> << >>, validations |-> << >>, queries |-> 0, saves |-> << >>,
     reply |-> << >>, raised |-> FALSE]

\* state.current_state = q
SetState(c, q) ==
    [c EXCEPT !.st.current_state = q,
              !.writes = Append(@, [from |-> c.st.current_state, to |-> q, table |-> get_next_state(c.st)])]

\* generate_response(state, ...): the reply generated for the current phase.
generate_response(c) ==
    [c EXCEPT !.reply = Append(@, [fn |-> "generate_response", about |-> c.st.current_state])]

\* generate_llm_response(state, user_input, task=...)
generate_llm_response(c, task) ==
    [c EXCEPT !.reply = Append(@, [fn |-> "generate_llm_response", about |-> task])]

\* A fixed text added to the reply.
Say(c, text) == [c EXCEPT !.reply = Append(@, [fn |-> "text", about |-> text])]

\* state.merge_slots(extracted.model_dump(exclude_none=True))
MergeInto(c, extracted) ==
    [c EXCEPT !.st.slots = merge_slots(c.st.slots, extracted).slots]

\* "word" in user_input.lower().split()
HasWord(words, w) == \E i \in 1..Len(words) : words[i] = w

\* A promotion that marks the session returning without recording whose.
_set_returning_patient_without_id(c, patient) ==
    LET items == [i \in 1..Len(PATIENT_FIELDS) |-> <<PATIENT_FIELDS[i], patient[PATIENT_FIELDS[i]]>>]
        c1 == [c EXCEPT !.st.is_returning = TRUE,
                        !.st.slots = SlotsUpdate(c.st.slots, items)]
    IN generate_response(SetState(c1, CONFIRM_RETURNING))

\* _set_returning_patient
_set_returning_patient(c, patient) ==
    LET items == [i \in 1..Len(PATIENT_FIELDS) |-> <<PATIENT_FIELDS[i], patient[PATIENT_FIELDS[i]]>>]
        c1 == [c EXCEPT !.st.is_returning = TRUE,
                        !.st.patient_id = patient.id,
                        !.st.slots = SlotsUpdate(c.st.slots, items)]
    IN generate_response(SetState(c1, CONFIRM_RETURNING))

\* handle_greet
handle_greet(c) == generate_response(SetState(c, CHECK_PATIENT))

\* handle_check_patient
handle_check_patient(c, extracted, intent, words) ==
    LET c1 == MergeInto(c, extracted)
        sl == c1.st.slots
        patient == find_existing_patient(c1.patients, sl["phone"], sl["email"], sl["first_name"], sl["last_name"], sl["date_of_birth"])
        askDob == Truthy(sl["first_name"]) /\ Truthy(sl["last_name"]) /\ ~Truthy(sl["date_of_birth"])
        name_matches == IF askDob THEN find_patients_by_name(c1.patients, sl["first_name"], sl["last_name"]) ELSE << >>
    IN IF patient # << >> THEN _set_returning_patient(c1, patient[1])
       ELSE IF name_matches # << >>
       THEN generate_llm_response(SetState([c1 EXCEPT !.st.pending_name_matches = name_matches], VERIFY_DOB), "ask_dob_to_verify")
       ELSE IF intent.is_negative \/ HasWord(words, "no")
       THEN generate_response(SetState(c1, COLLECT_PATIENT))
       ELSE IF Truthy(sl["phone"]) \/ Truthy(sl["first_name"])
       THEN generate_llm_response(SetState(c1, COLLECT_PATIENT), "patient_not_found")
       ELSE generate_response(c1)

\* A verification that compares the date of birth with the first candidate
\* only.
handle_verify_dob_first_candidate_only(c, extracted) ==
    LET c1 == MergeInto(c, extracted)
        dob == c1.st.slots["date_of_birth"]
        i == IF c1.st.pending_name_matches # << >> /\ c1.st.pending_name_matches[1].date_of_birth = dob THEN 1 ELSE 0
    IN IF ~Truthy(dob) THEN generate_llm_response(c1, "ask_dob_to_verify")
       ELSE IF i # 0
       THEN _set_returning_patient([c1 EXCEPT !.st.pending_name_matches = << >>], c1.st.pending_name_matches[i])
       ELSE generate_llm_response(SetState([c1 EXCEPT !.st.pending_name_matches = << >>], COLLECT_PATIENT), "dob_no_match")

\* handle_verify_dob
handle_verify_dob(c, extracted) ==
    LET c1 == MergeInto(c, extracted)
        dob == c1.st.slots["date_of_birth"]
        sameDob(r) == r.date_of_birth = dob
        i == FirstIndex(c1.st.pending_name_matches, sameDob)
    IN IF ~Truthy(dob) THEN generate_llm_response(c1, "ask_dob_to_verify")
       ELSE IF i # 0
       THEN _set_returning_patient([c1 EXCEPT !.st.pending_name_matches = << >>], c1.st.pending_name_matches[i])
       ELSE generate_llm_response(SetState([c1 EXCEPT !.st.pending_name_matches = << >>], COLLECT_PATIENT), "dob_no_match")

\* Giving up one failed attempt later.
GiveUpAtThree(attempts) == attempts >= 3

\* The threshold of failed attempts at which do_address_validation gives up.
GiveUp(attempts) == attempts >= 2

\* A validation that gives the retry budget back once the address validates.
do_address_validation_resets_on_success(c, api) ==
    LET sl == c.st.slots
        c1 == [c EXCEPT !.st.address_validation_attempts = @ + 1]
        result == validate_address(sl["address_line1"], sl["city"], sl["state"], sl["zip_code"], api)
        c2 == [c1 EXCEPT !.validations = Append(@, IF result.is_valid THEN "valid" ELSE "invalid")]
    IN IF result.raised
       THEN [c1 EXCEPT !.validations = Append(@, "raised"), !.raised = TRUE]
       ELSE IF result.is_valid
       THEN LET c3 == [c2 EXCEPT !.st.slots = SlotsUpdate([sl EXCEPT !["address_validated"] = PyTrue], result.corrected_components),
                                 !.st.address_validation_attempts = 0]
            IN generate_response(SetState(c3, CONFIRM_ADDRESS))
       ELSE IF GiveUp(c2.st.address_validation_attempts)
       THEN LET c3 == [c2 EXCEPT !.st.slots["address_validated"] = PyFalse]
            IN generate_response(SetState(c3, CONFIRM_ADDRESS))
       ELSE LET c3 == [c2 EXCEPT !.st.pending_address_suggestion = result.suggested_address]
            IN SetState(Say(c3, "address_could_not_be_verified"), VALIDATE_ADDRESS)

\* A validation that counts failed attempts only.
do_address_validation_counts_failures(c, api) ==
    LET sl == c.st.slots
        c1 == [c EXCEPT !.st.address_validation_attempts = @ + 1]
        result == validate_address(sl["address_line1"], sl["city"], sl["state"], sl["zip_code"], api)
        c2 == [c1 EXCEPT !.validations = Append(@, IF result.is_valid THEN "valid" ELSE "invalid")]
    IN IF result.raised
       THEN [c1 EXCEPT !.validations = Append(@, "raised"), !.raised = TRUE]
       ELSE IF result.is_valid
       THEN LET c3 == [c2 EXCEPT !.st.slots = SlotsUpdate([sl EXCEPT !["address_validated"] = PyTrue], result.corrected_components),
                                 !.st.address_validation_attempts = @ - 1]
            IN generate_response(SetState(c3, CONFIRM_ADDRESS))
       ELSE IF GiveUp(c2.st.address_validation_attempts)
       THEN LET c3 == [c2 EXCEPT !.st.slots["address_validated"] = PyFalse]
            IN generate_response(SetState(c3, CONFIRM_ADDRESS))
       ELSE LET c3 == [c2 EXCEPT !.st.pending_address_suggestion = result.suggested_address]
            IN SetState(Say(c3, "address_could_not_be_verified"), VALIDATE_ADDRESS)

\* do_address_validation: the counter is incremented before the call, so an
\* exception out of validate_address leaves the turn with the increment only.
do_address_validation(c, api) ==
    LET sl == c.st.slots
        c1 == [c EXCEPT !.st.address_validation_attempts = @ + 1]
        result == validate_address(sl["address_line1"], sl["city"], sl["state"], sl["zip_code"], api)
        c2 == [c1 EXCEPT !.validations = Append(@, IF result.is_valid THEN "valid" ELSE "invalid")]
    IN IF result.raised
       THEN [c1 EXCEPT !.validations = Append(@, "raised"), !.raised = TRUE]
       ELSE IF result.is_valid
       THEN LET c3 == [c2 EXCEPT !.st.slots = SlotsUpdate([sl EXCEPT !["address_validated"] = PyTrue], result.corrected_components)]
            IN generate_response(SetState(c3, CONFIRM_ADDRESS))
       ELSE IF GiveUp(c2.st.address_validation_attempts)
       THEN LET c3 == [c2 EXCEPT !.st.slots["address_validated"] = PyFalse]
            IN generate_response(SetState(c3, CONFIRM_ADDRESS))
       ELSE LET c3 == [c2 EXCEPT !.st.pending_address_suggestion = result.suggested_address]
            IN SetState(Say(c3, "address_could_not_be_verified"), VALIDATE_ADDRESS)

\* What follows a do_address_validation call is skipped when it raised.
AfterValidation(c, template) == IF c.raised THEN c ELSE Say(c, template)

AddressFields == {"address_line1", "city", "state", "zip_code"}

\* handle_confirm_returning
handle_confirm_returning(c, extracted, intent, api) ==
    LET m == merge_slots(c.st.slots, extracted)
        newly_filled == m.changed
        address_changed == \E i \in 1..Len(newly_filled) : newly_filled[i] \in AddressFields
        c1 == [c EXCEPT !.st.slots = m.slots]
        c2 == IF address_changed
              THEN [c1 EXCEPT !.st.slots["address_validated"] = None, !.st.address_validation_attempts = 0]
              ELSE c1
        revalidate == address_changed /\ is_phase_complete(c2.st.slots, COLLECT_ADDRESS)
    IN IF intent.wants_to_update \/ intent.is_negative
       THEN IF newly_filled # << >>
            THEN IF revalidate
                 THEN AfterValidation(do_address_validation(c2, api), "anything_else_to_update")
                 ELSE Say(generate_response(c2), "anything_else_to_update")
            ELSE IF Truthy(intent.field_to_update)
            THEN generate_llm_response(c2, "ask_new_value")
            ELSE generate_llm_response(c2, "ask_what_to_update")
       ELSE IF intent.is_affirmative
       THEN generate_response(SetState(c2, COLLECT_MEDICAL))
       ELSE IF newly_filled # << >>
       THEN IF revalidate
            THEN AfterValidation(do_address_validation(c2, api), "anything_else_to_update")
            ELSE Say(generate_response(c2), "anything_else_or_correct")
       ELSE generate_llm_response(c2, "ask_still_correct")

\* A lookup that goes from the full match straight to the unfiltered list.
QueryTiersWithoutInsuranceOnly(provs, slots) ==
    LET t1 == find_providers(provs, slots["insurance_payer"], slots["chief_complaint"], 5)
        t3 == find_providers(provs, None, None, 5)
    IN IF t1 # << >> THEN t1 ELSE t3

\* The three-tier provider lookup of handle_query_providers.
QueryTiers(provs, slots) ==
    LET t1 == find_providers(provs, slots["insurance_payer"], slots["chief_complaint"], 5)
        t2 == find_providers(provs, slots["insurance_payer"], None, 5)
        t3 == find_providers(provs, None, None, 5)
    IN IF t1 # << >> THEN t1 ELSE IF t2 # << >> THEN t2 ELSE t3

\* A provider query that asks for a selection although nothing was found.
handle_query_providers_always_select(c) ==
    LET found == QueryTiers(providers, c.st.slots)
        c1 == [c EXCEPT !.queries = @ + 1]
        listed == [i \in 1..Len(found) |-> [id |-> found[i].id, name |-> found[i].name, specialty |-> found[i].specialty, rating |-> found[i].rating]]
    IN generate_response(SetState([c1 EXCEPT !.st.matched_providers = listed], SELECT_PROVIDER))

\* handle_query_providers
handle_query_providers(c) ==
    LET found == QueryTiers(providers, c.st.slots)
        c1 == [c EXCEPT !.queries = @ + 1]
    IN IF found # << >>
       THEN LET listed == [i \in 1..Len(found) |-> [id |-> found[i].id, name |-> found[i].name, specialty |-> found[i].specialty, rating |-> found[i].rating]]
            IN generate_response(SetState([c1 EXCEPT !.st.matched_providers = listed], SELECT_PROVIDER))
       ELSE generate_llm_response(SetState(c1, CONFIRM), "no_providers_available")

\* A collection that goes on to the provider query once the address is
\* validated.
handle_collection_validates_and_queries(c, extracted, api, ack_ok) ==
    LET c1 == MergeInto(c, extracted)
    IN IF is_phase_complete(c1.st.slots, c1.st.current_state)
       THEN LET next_state == get_next_state(c1.st)
                c2 == SetState(c1, next_state)
                c3 == do_address_validation(c2, api)
            IN IF next_state = VALIDATE_ADDRESS
               THEN (IF c3.st.current_state = CONFIRM_ADDRESS THEN handle_query_providers(SetState(c3, QUERY_PROVIDERS)) ELSE c3)
               ELSE IF next_state = QUERY_PROVIDERS
               THEN (IF ack_ok THEN handle_query_providers(generate_response(c2)) ELSE [c2 EXCEPT !.raised = TRUE])
               ELSE generate_response(c2)
       ELSE generate_response(c1)

\* A collection that leaves the provider query to the next turn.
handle_collection_no_auto_query(c, extracted, api, ack_ok) ==
    LET c1 == MergeInto(c, extracted)
    IN IF is_phase_complete(c1.st.slots, c1.st.current_state)
       THEN LET next_state == get_next_state(c1.st)
                c2 == SetState(c1, next_state)
            IN IF next_state = VALIDATE_ADDRESS THEN do_address_validation(c2, api)
               ELSE generate_response(c2)
       ELSE generate_response(c1)

\* handle_collection.  The acknowledgement generated before the provider
\* query is a call to the response model that can raise (ack_ok = FALSE): the
\* exception leaves the handler with the phase already QUERY_PROVIDERS, and
\* the next turn is dispatched to handle_query_providers.
handle_collection(c, extracted, api, ack_ok) ==
    LET c1 == MergeInto(c, extracted)
    IN IF is_phase_complete(c1.st.slots, c1.st.current_state)
       THEN LET next_state == get_next_state(c1.st)
                c2 == SetState(c1, next_state)
            IN IF next_state = VALIDATE_ADDRESS THEN do_address_validation(c2, api)
               ELSE IF next_state = QUERY_PROVIDERS
               THEN (IF ack_ok THEN handle_query_providers(generate_response(c2)) ELSE [c2 EXCEPT !.raised = TRUE])
               ELSE generate_response(c2)
       ELSE generate_response(c1)

\* An acceptance that leaves the accepted suggestion pending.
handle_validate_address_keeps_suggestion(c, extracted, intent, words, api) ==
    IF (intent.is_affirmative \/ HasWord(words, "yes")) /\ Truthy(c.st.pending_address_suggestion)
    THEN LET parsed == parse_suggested_address(c.st.pending_address_suggestion)
             sl1 == IF parsed # << >> THEN SlotsUpdate(c.st.slots, parsed) ELSE c.st.slots
             c1 == [c EXCEPT !.st.slots = [sl1 EXCEPT !["address_validated"] = PyTrue]]
         IN generate_llm_response(SetState(c1, CONFIRM_ADDRESS), "confirm_updated_address")
    ELSE LET c1 == [MergeInto(c, extracted) EXCEPT !.st.pending_address_suggestion = None]
         IN IF is_phase_complete(c1.st.slots, COLLECT_ADDRESS)
            THEN do_address_validation(c1, api)
            ELSE generate_response(c1)

\* An acceptance that marks the address validated without writing the
\* suggestion's components.
handle_validate_address_ignores_parsed(c, extracted, intent, words, api) ==
    IF (intent.is_affirmative \/ HasWord(words, "yes")) /\ Truthy(c.st.pending_address_suggestion)
    THEN LET c1 == [c EXCEPT !.st.slots["address_validated"] = PyTrue,
                             !.st.pending_address_suggestion = None]
         IN generate_llm_response(SetState(c1, CONFIRM_ADDRESS), "confirm_updated_address")
    ELSE LET c1 == [MergeInto(c, extracted) EXCEPT !.st.pending_address_suggestion = None]
         IN IF is_phase_complete(c1.st.slots, COLLECT_ADDRESS)
            THEN do_address_validation(c1, api)
            ELSE generate_response(c1)

\* handle_validate_address
handle_validate_address(c, extracted, intent, words, api) ==
    IF (intent.is_affirmative \/ HasWord(words, "yes")) /\ Truthy(c.st.pending_address_suggestion)
    THEN LET parsed == parse_suggested_address(c.st.pending_address_suggestion)
             sl1 == IF parsed # << >> THEN SlotsUpdate(c.st.slots, parsed) ELSE c.st.slots
             c1 == [c EXCEPT !.st.slots = [sl1 EXCEPT !["address_validated"] = PyTrue],
                             !.st.pending_address_suggestion = None]
         IN generate_llm_response(SetState(c1, CONFIRM_ADDRESS), "confirm_updated_address")
    ELSE LET c1 == [MergeInto(c, extracted) EXCEPT !.st.pending_address_suggestion = None]
         IN IF is_phase_complete(c1.st.slots, COLLECT_ADDRESS)
            THEN do_address_validation(c1, api)
            ELSE generate_response(c1)

\* An advance that stops in the collection phase it was handed, complete or
\* not.
advance_without_skipping(c, api) == generate_response(c)

\* advance_to_next_actionable_state: every branch of the loop body returns,
\* so the loop body runs once.
advance_to_next_actionable_state(c, api) ==
    LET current == c.st.current_state
        complete == is_phase_complete(c.st.slots, current)
    IN IF current = COLLECT_PATIENT
       THEN (IF complete THEN generate_response(SetState(c, CONFIRM_PATIENT)) ELSE generate_response(c))
       ELSE IF current = COLLECT_INSURANCE
       THEN (IF complete THEN generate_response(SetState(c, CONFIRM_INSURANCE)) ELSE generate_response(c))
       ELSE IF current = COLLECT_ADDRESS
       THEN (IF complete THEN do_address_validation(SetState(c, VALIDATE_ADDRESS), api) ELSE generate_response(c))
       ELSE IF current = COLLECT_MEDICAL
       THEN (IF complete THEN handle_query_providers(SetState(c, QUERY_PROVIDERS)) ELSE generate_response(c))
       ELSE generate_response(c)

\* A confirmation that takes a correction for the go-ahead.
handle_phase_confirm_advances_on_change(c, next_state, extracted, intent, words, api) ==
    IF intent.is_affirmative \/ HasWord(words, "yes")
    THEN advance_to_next_actionable_state(SetState(c, next_state), api)
    ELSE LET m == merge_slots(c.st.slots, extracted)
             c1 == [c EXCEPT !.st.slots = m.slots]
         IN IF m.changed # << >> THEN advance_to_next_actionable_state(SetState(c1, next_state), api)
            ELSE IF intent.is_negative \/ intent.wants_to_update
            THEN generate_llm_response(c1, "ask_what_to_correct")
            ELSE generate_llm_response(c1, "ask_confirm_or_change")

\* A confirmation that reopens its collection phase when the user declines.
handle_phase_confirm_reopens_collection(c, next_state, extracted, intent, words, api) ==
    IF intent.is_affirmative \/ HasWord(words, "yes")
    THEN advance_to_next_actionable_state(SetState(c, next_state), api)
    ELSE LET m == merge_slots(c.st.slots, extracted)
             c1 == [c EXCEPT !.st.slots = m.slots]
             collection == CASE c.st.current_state = CONFIRM_PATIENT -> COLLECT_PATIENT
                             [] c.st.current_state = CONFIRM_INSURANCE -> COLLECT_INSURANCE
                             [] OTHER -> COLLECT_ADDRESS
         IN IF m.changed # << >> THEN Say(generate_response(c1), "is_this_correct_now")
            ELSE IF intent.is_negative \/ intent.wants_to_update
            THEN generate_llm_response(SetState(c1, collection), "ask_what_to_correct")
            ELSE generate_llm_response(c1, "ask_confirm_or_change")

\* handle_phase_confirm
handle_phase_confirm(c, next_state, extracted, intent, words, api) ==
    IF intent.is_affirmative \/ HasWord(words, "yes")
    THEN advance_to_next_actionable_state(SetState(c, next_state), api)
    ELSE LET m == merge_slots(c.st.slots, extracted)
             c1 == [c EXCEPT !.st.slots = m.slots]
         IN IF m.changed # << >> THEN Say(generate_response(c1), "is_this_correct_now")
            ELSE IF intent.is_negative \/ intent.wants_to_update
            THEN generate_llm_response(c1, "ask_what_to_correct")
            ELSE generate_llm_response(c1, "ask_confirm_or_change")

handle_confirm_patient(c, extracted, intent, words, api) ==
    handle_phase_confirm(c, COLLECT_INSURANCE, extracted, intent, words, api)

handle_confirm_insurance(c, extracted, intent, words, api) ==
    handle_phase_confirm(c, COLLECT_ADDRESS, extracted, intent, words, api)

handle_confirm_address(c, extracted, intent, words, api) ==
    handle_phase_confirm(c, COLLECT_MEDICAL, extracted, intent, words, api)


\* The uuid4 save_patient_data gives a new patient.
NewPatientId == ID_NEW

\* save_patient_data: update the matched patient or create a new one, create
\* a visit when there is a chief complaint, book the selected appointment.
\* The value book_appointment returns is not looked at.
save_patient_data(c) ==
    LET sl == c.st.slots
        returning == c.st.is_returning /\ Truthy(c.st.patient_id)
        keepItem(i) == sl[SlotOrder[i]] # None /\ SlotOrder[i] \notin MedicalFields
        idx == SelectSeq([i \in 1..Len(SlotOrder) |-> i], keepItem)
        updates == [k \in 1..Len(idx) |-> <<SlotOrder[idx[k]], sl[SlotOrder[idx[k]]]>>]
        upd == update(c.patients, c.change_log, c.st.patient_id, updates)
        patient == [f \in PatientFieldSet \cup {"id"} |-> IF f = "id" THEN NewPatientId ELSE sl[f]]
        cre == create(c.patients, c.change_log, patient)
        patient_id == IF returning THEN c.st.patient_id ELSE NewPatientId
        c1 == IF returning
              THEN [c EXCEPT !.patients = upd.patients, !.change_log = upd.change_log, !.saves = Append(@, "update_patient")]
              ELSE [c EXCEPT !.patients = cre.patients, !.change_log = cre.change_log, !.saves = Append(@, "create_patient")]
        hasVisit == Truthy(sl["chief_complaint"])
        vis == create_visit(c1.visits, patient_id, sl["chief_complaint"], sl["symptoms"], sl["symptom_duration"], sl["severity"])
        visit_id == IF hasVisit THEN vis.visit.id ELSE None
        c2 == IF hasVisit THEN [c1 EXCEPT !.visits = vis.visits, !.saves = Append(@, "create_visit")] ELSE c1
        bkd == book_appointment(c2.appointments, c.st.selected_appointment_id, patient_id, visit_id, sl["chief_complaint"])
        c3 == IF Truthy(c.st.selected_appointment_id)
              THEN [c2 EXCEPT !.appointments = bkd.appointments,
                              !.saves = Append(@, IF bkd.result = << >> THEN "book_none" ELSE "book_ok")]
              ELSE c2
    IN IF ~returning /\ ~cre.ok THEN [c EXCEPT !.raised = TRUE] ELSE c3

\* Taking only the word "yes" as the go-ahead.
ConfirmOnYesWordOnly(intent, words) == HasWord(words, "yes")

\* Which turns handle_confirm takes as the go-ahead to save.
ConfirmGoAhead(intent, words) == intent.is_affirmative \/ HasWord(words, "yes")

\* handle_confirm, saving what it has at every correction as well.
handle_confirm_saves_corrections(c, extracted, intent, words) ==
    IF ConfirmGoAhead(intent, words)
    THEN LET c1 == save_patient_data(c)
         IN IF c1.raised THEN c1 ELSE Say(SetState(c1, END), "appointment_has_been_booked")
    ELSE IF intent.is_negative
    THEN generate_llm_response(c, "ask_what_to_correct_before_booking")
    ELSE LET m == merge_slots(c.st.slots, extracted)
             c1 == [c EXCEPT !.st.slots = m.slots]
         IN IF m.changed # << >> THEN generate_llm_response(save_patient_data(c1), "show_updated_info")
            ELSE generate_llm_response(c1, "show_final_summary")

\* handle_confirm
handle_confirm(c, extracted, intent, words) ==
    IF ConfirmGoAhead(intent, words)
    THEN LET c1 == save_patient_data(c)
         IN IF c1.raised THEN c1 ELSE Say(SetState(c1, END), "appointment_has_been_booked")
    ELSE IF intent.is_negative
    THEN generate_llm_response(c, "ask_what_to_correct_before_booking")
    ELSE LET m == merge_slots(c.st.slots, extracted)
             c1 == [c EXCEPT !.st.slots = m.slots]
         IN IF m.changed # << >> THEN generate_llm_response(c1, "show_updated_info")
            ELSE generate_llm_response(c1, "show_final_summary")

\* An interpretation that takes a number past the list for its last option.
interpret_selection_clamped(options, numbers) ==
    IF options = << >> THEN << >>
    ELSE IF numbers # << >> /\ 1 <= numbers[1] /\ numbers[1] <= Len(options) THEN <<numbers[1] - 1>>
    ELSE IF numbers # << >> /\ numbers[1] > Len(options) THEN <<Len(options) - 1>>
    ELSE << >>

\* interpret_selection: numbers holds the first number of the model's answer,
\* if any.  The result is << >> for None, else <<index>>.
interpret_selection(options, numbers) ==
    IF options = << >> THEN << >>
    ELSE IF numbers # << >> /\ 1 <= numbers[1] /\ numbers[1] <= Len(options) THEN <<numbers[1] - 1>>
    ELSE << >>

\* selected_idx is not None and 0 <= selected_idx < len(options)
ValidIndex(selected_idx, options) ==
    selected_idx # << >> /\ 0 <= selected_idx[1] /\ selected_idx[1] < Len(options)

\* handle_select_provider, moving on to the time choice whatever the provider
\* has to offer.
handle_select_provider_always_moves_on(c, numbers) ==
    LET selected_idx == interpret_selection(c.st.matched_providers, numbers)
    IN IF ValidIndex(selected_idx, c.st.matched_providers)
       THEN LET provider == c.st.matched_providers[selected_idx[1] + 1]
                rows == get_available_slots(c.appointments, provider.id, 10)
                listed == [i \in 1..Len(rows) |-> [id |-> rows[i].id, date |-> rows[i].date, time |-> rows[i].time]]
                c1 == [c EXCEPT !.st.selected_provider_id = provider.id,
                                !.st.selected_provider_name = provider.name,
                                !.st.available_slots = listed]
            IN generate_response(SetState(c1, SELECT_TIME))
       ELSE generate_llm_response(c, "could_not_understand_provider")

\* handle_select_provider
handle_select_provider(c, numbers) ==
    LET selected_idx == interpret_selection(c.st.matched_providers, numbers)
    IN IF ValidIndex(selected_idx, c.st.matched_providers)
       THEN LET provider == c.st.matched_providers[selected_idx[1] + 1]
                rows == get_available_slots(c.appointments, provider.id, 10)
                listed == [i \in 1..Len(rows) |-> [id |-> rows[i].id, date |-> rows[i].date, time |-> rows[i].time]]
                c1 == [c EXCEPT !.st.selected_provider_id = provider.id,
                                !.st.selected_provider_name = provider.name,
                                !.st.available_slots = listed]
            IN IF listed # << >> THEN generate_response(SetState(c1, SELECT_TIME))
               ELSE generate_llm_response(c1, "provider_has_no_appointments")
       ELSE generate_llm_response(c, "could_not_understand_provider")

\* handle_select_time, reading the date and the time from the head of the
\* list.
handle_select_time_reads_first_slot(c, numbers) ==
    LET selected_idx == interpret_selection(c.st.available_slots, numbers)
    IN IF ValidIndex(selected_idx, c.st.available_slots)
       THEN LET slot == c.st.available_slots[selected_idx[1] + 1]
                c1 == [c EXCEPT !.st.selected_appointment_id = slot.id,
                                !.st.selected_date = c.st.available_slots[1].date,
                                !.st.selected_time = c.st.available_slots[1].time]
            IN generate_llm_response(SetState(c1, CONFIRM), "show_final_summary")
       ELSE generate_llm_response(c, "could_not_understand_time")

\* handle_select_time
handle_select_time(c, numbers) ==
    LET selected_idx == interpret_selection(c.st.available_slots, numbers)
    IN IF ValidIndex(selected_idx, c.st.available_slots)
       THEN LET slot == c.st.available_slots[selected_idx[1] + 1]
                c1 == [c EXCEPT !.st.selected_appointment_id = slot.id,
                                !.st.selected_date = slot.date,
                                !.st.selected_time = slot.time]
            IN generate_llm_response(SetState(c1, CONFIRM), "show_final_summary")
       ELSE generate_llm_response(c, "could_not_understand_time")

----------------------------------------------------------------------------
(* What a turn can bring *)

\* Records extract_slots can return, as the items of model_dump(exclude_none=True).
E_none == << >>
E_phoneA == <<<<"phone", PHONE_A>>>>
E_name == <<<<"first_name", S_Jane>>, <<"last_name", S_Smith>>>>
E_dobA == <<<<"date_of_birth", DOB_A>>>>
E_new == <<<<"first_name", S_Jane>>, <<"last_name", S_Smith>>, <<"date_of_birth", DOB_C>>, <<"phone", PHONE_B>>>>
E_ins == <<<<"insurance_payer", INS_A>>, <<"insurance_member_id", MEM_A>>>>
E_addr == <<<<"address_line1", LINE1_A>>, <<"city", CITY_A>>, <<"state", ST_CA>>, <<"zip_code", ZIP_A>>>>
E_cityB == <<<<"city", CITY_B>>>>
E_zipBad == <<<<"zip_code", ZIP_BAD>>>>
E_cc == <<<<"chief_complaint", CC_A>>>>
E_dobC == <<<<"date_of_birth", DOB_C>>>>
E_phoneB == <<<<"phone", PHONE_B>>>>
E_plan == <<<<"insurance_plan", PLAN_A>>>>
\* {"insurance_plan": ""} from the model: ExtractedSlots validates only
\* date_of_birth, phone and state, so the empty string is kept, and
\* model_dump(exclude_none=True) drops None only.
E_planBlank == <<<<"insurance_plan", EmptyStr>>>>

\* The records the extractor returns in a phase: nothing, what the phase asks
\* for, and a correction of what an earlier phase collected.
ExtractedRecords(phase) ==
    CASE phase = CHECK_PATIENT -> {E_none, E_phoneA, E_name, E_new}
      [] phase = VERIFY_DOB -> {E_none, E_dobA, E_dobC}
      [] phase = CONFIRM_RETURNING -> {E_none, E_phoneB, E_cityB, E_zipBad}
      [] phase = COLLECT_PATIENT -> {E_none, E_new}
      [] phase = CONFIRM_PATIENT -> {E_none, E_phoneB}
      [] phase = COLLECT_INSURANCE -> {E_none, E_ins}
      [] phase = CONFIRM_INSURANCE -> {E_none, E_plan}
      [] phase = COLLECT_ADDRESS -> {E_none, E_addr, E_cityB}
      [] phase = VALIDATE_ADDRESS -> {E_none, E_addr, E_cityB}
      [] phase = CONFIRM_ADDRESS -> {E_none, E_cityB}
      [] phase = COLLECT_MEDICAL -> {E_none, E_cc}
      [] phase = CONFIRM -> {E_none, E_plan, E_planBlank}
      [] OTHER -> {E_none}

\* classify_intent results (is_greeting is read by no handler).
Intent(aff, neg, upd, field) ==
    [is_affirmative |-> aff, is_negative |-> neg, wants_to_update |-> upd, field_to_update |-> field]

\* field_to_update, which the classifier fills only with wants_to_update.
FieldsToUpdate == {None, <<"p", "h", "o", "n", "e">>}

\* user_input.lower().split() for the utterances of the model: those a
\* handler looking for the word "yes" tells apart, and those a handler
\* looking for the word "no" tells apart.
YesUtterances == {<<"ok">>, <<"yes">>}
NoUtterances == {<<"ok">>, <<"no">>}

\* The largest option number the selection model answers with.
MaxOptionNumber == 3

\* re.findall(r'\d+', result): no number, or a first number.
SelectionAnswers == {<< >>} \cup {<<n>> : n \in 0..MaxOptionNumber}

----------------------------------------------------------------------------
(* The store at the start of a session *)

P1 ==
    [id |-> ID_P1, first_name |-> S_Jane, last_name |-> S_Smith, date_of_birth |-> DOB_A, phone |-> PHONE_A, email |-> None,
     address_line1 |-> LINE1_A, address_line2 |-> None, city |-> CITY_A, state |-> ST_CA, zip_code |-> ZIP_A, address_validated |-> PyTrue,
     insurance_payer |-> INS_A, insurance_plan |-> None, insurance_member_id |-> MEM_A, insurance_group_id |-> None]

P_OTHER ==
    [id |-> ID_OTHER, first_name |-> S_Al, last_name |-> S_Ng, date_of_birth |-> DOB_C, phone |-> PHONE_C, email |-> None,
     address_line1 |-> None, address_line2 |-> None, city |-> None, state |-> None, zip_code |-> None, address_validated |-> PyFalse,
     insurance_payer |-> None, insurance_plan |-> None, insurance_member_id |-> None, insurance_group_id |-> None]

InitialPatients == <<P1, P_OTHER>>

ProviderRows ==
    <<[id |-> ID_PROV2, name |-> NAME_PROV2, specialty |-> SPEC_GP, insurance_accepted |-> JSON_INS_2, conditions_treated |-> JSON_COND_2, rating |-> 45, accepting_new_patients |-> TRUE],
      [id |-> ID_PROV1, name |-> NAME_PROV1, specialty |-> SPEC_GP, insurance_accepted |-> JSON_INS_1, conditions_treated |-> JSON_COND_1, rating |-> 48, accepting_new_patients |-> TRUE]>>

\* The providers table: the two providers, or none accepting patients.
ProviderTables == {ProviderRows, << >>}

Slot(id, provider_id, date, time) ==
    [id |-> id, provider_id |-> provider_id, date |-> date, time |-> time, status |-> "available", patient_id |-> None, visit_id |-> None, reason |-> None]

InitialAppointments ==
    <<Slot(ID_A2, ID_PROV1, DATE_2, TIME_AM), Slot(ID_A0, ID_PROV1, DATE_PAST, TIME_AM), Slot(ID_A1, ID_PROV1, DATE_1, TIME_PM)>>


----------------------------------------------------------------------------
(* One session against the store.  log is the record of the last turn: the  *)
(* handler that ran, the phase it started in, the intent flags and the      *)
(* "yes" keyword the handler read, and what the turn did.                   *)

NoTurn ==
    [handler |-> "none", from |-> GREET, aff |-> FALSE, neg |-> FALSE, upd |-> FALSE, yes |-> FALSE,
     writes |-> << >>, validations |-> << >>, queries |-> 0, saves |-> << >>, reply |-> << >>, raised |-> FALSE]

MrgIdle == [extracted |-> << >>, before |-> NewConversationState, returned |-> << >>, history |-> << >>]

BkIdle == [before |-> << >>, lock |-> 0, sess |-> << >>]

FnIdle == [op |-> "none", before |-> NewConversationState, st |-> NewConversationState, phase |-> GREET, missing |-> << >>, complete |-> FALSE, nexts |-> << >>]

Init ==
    /\ state = NewConversationState
    /\ patients = InitialPatients
    /\ change_log = << >>
    /\ visits = << >>
    /\ appointments = InitialAppointments
    /\ providers \in ProviderTables
    /\ log = NoTurn
    /\ mrg = MrgIdle
    /\ bk = BkIdle
    /\ fn = FnIdle

Start == Ctx(state, patients, change_log, visits, appointments)

\* The turn's effects become the new state; an exception leaves the handler
\* with the mutations made so far (main() catches it and goes on).
TurnEffects(c, handler, aff, neg, upd, yes) ==
    /\ state' = c.st
    /\ patients' = c.patients
    /\ change_log' = c.change_log
    /\ visits' = c.visits
    /\ appointments' = c.appointments
    /\ log' = [handler |-> handler, from |-> state.current_state, aff |-> aff, neg |-> neg, upd |-> upd, yes |-> yes,
               writes |-> c.writes, validations |-> c.validations, queries |-> c.queries, saves |-> c.saves,
               reply |-> c.reply, raised |-> c.raised]

Turn(c, handler, aff, neg, upd, yes) ==
    /\ TurnEffects(c, handler, aff, neg, upd, yes)
    /\ UNCHANGED <<providers, mrg, bk, fn>>

\* main(): the greeting is printed and the phase set before the first input.
MainStart ==
    /\ state.current_state = GREET
    /\ log.handler = "none"
    /\ Turn(SetState(Start, CHECK_PATIENT), "main", FALSE, FALSE, FALSE, FALSE)

HandleGreet ==
    /\ state.current_state = GREET
    /\ Turn(handle_greet(Start), "handle_greet", FALSE, FALSE, FALSE, FALSE)

HandleCheckPatient ==
    /\ state.current_state = CHECK_PATIENT
    /\ \E extracted \in ExtractedRecords(state.current_state), neg \in BOOLEAN, words \in NoUtterances :
          Turn(handle_check_patient(Start, extracted, Intent(FALSE, neg, FALSE, None), words), "handle_check_patient", FALSE, neg, FALSE, FALSE)

HandleVerifyDob ==
    /\ state.current_state = VERIFY_DOB
    /\ \E extracted \in ExtractedRecords(state.current_state) :
          Turn(handle_verify_dob(Start, extracted), "handle_verify_dob", FALSE, FALSE, FALSE, FALSE)

HandleConfirmReturning ==
    /\ state.current_state = CONFIRM_RETURNING
    /\ \E extracted \in ExtractedRecords(state.current_state), aff \in BOOLEAN, neg \in BOOLEAN, upd \in BOOLEAN, field \in FieldsToUpdate, api \in ApiOutcomes :
          /\ (~upd => field = None)
          /\ Turn(handle_confirm_returning(Start, extracted, Intent(aff, neg, upd, field), api), "handle_confirm_returning", aff, neg, upd, FALSE)

HandleCollection ==
    /\ state.current_state \in {COLLECT_PATIENT, COLLECT_INSURANCE, COLLECT_ADDRESS, COLLECT_MEDICAL}
    /\ \E extracted \in ExtractedRecords(state.current_state), api \in ApiOutcomes, ack_ok \in BOOLEAN :
          Turn(handle_collection(Start, extracted, api, ack_ok), "handle_collection", FALSE, FALSE, FALSE, FALSE)

HandleValidateAddress ==
    /\ state.current_state = VALIDATE_ADDRESS
    /\ \E extracted \in ExtractedRecords(state.current_state), aff \in BOOLEAN, words \in YesUtterances, api \in ApiOutcomes :
          Turn(handle_validate_address(Start, extracted, Intent(aff, FALSE, FALSE, None), words, api), "handle_validate_address", aff, FALSE, FALSE, HasWord(words, "yes"))

\* No address validation can follow from CONFIRM_PATIENT (the next phase is
\* COLLECT_INSURANCE), so the validation API is not consulted.
HandleConfirmPatient ==
    /\ state.current_state = CONFIRM_PATIENT
    /\ \E extracted \in ExtractedRecords(state.current_state), aff \in BOOLEAN, neg \in BOOLEAN, upd \in BOOLEAN, words \in YesUtterances :
          Turn(handle_confirm_patient(Start, extracted, Intent(aff, neg, upd, None), words, ApiUnused), "handle_confirm_patient", aff, neg, upd, HasWord(words, "yes"))

HandleConfirmInsurance ==
    /\ state.current_state = CONFIRM_INSURANCE
    /\ \E extracted \in ExtractedRecords(state.current_state), aff \in BOOLEAN, neg \in BOOLEAN, upd \in BOOLEAN, words \in YesUtterances, api \in ApiOutcomes :
          Turn(handle_confirm_insurance(Start, extracted, Intent(aff, neg, upd, None), words, api), "handle_confirm_insurance", aff, neg, upd, HasWord(words, "yes"))

\* Nor from CONFIRM_ADDRESS (the next phase is COLLECT_MEDICAL).
HandleConfirmAddress ==
    /\ state.current_state = CONFIRM_ADDRESS
    /\ \E extracted \in ExtractedRecords(state.current_state), aff \in BOOLEAN, neg \in BOOLEAN, upd \in BOOLEAN, words \in YesUtterances :
          Turn(handle_confirm_address(Start, extracted, Intent(aff, neg, upd, None), words, ApiUnused), "handle_confirm_address", aff, neg, upd, HasWord(words, "yes"))

HandleQueryProviders ==
    /\ state.current_state = QUERY_PROVIDERS
    /\ Turn(handle_query_providers(Start), "handle_query_providers", FALSE, FALSE, FALSE, FALSE)

HandleSelectProvider ==
    /\ state.current_state = SELECT_PROVIDER
    /\ \E numbers \in SelectionAnswers :
          Turn(handle_select_provider(Start, numbers), "handle_select_provider", FALSE, FALSE, FALSE, FALSE)

HandleSelectTime ==
    /\ state.current_state = SELECT_TIME
    /\ \E numbers \in SelectionAnswers :
          Turn(handle_select_time(Start, numbers), "handle_select_time", FALSE, FALSE, FALSE, FALSE)

HandleConfirm ==
    /\ state.current_state = CONFIRM
    /\ \E extracted \in ExtractedRecords(state.current_state), aff \in BOOLEAN, neg \in BOOLEAN, words \in YesUtterances :
          Turn(handle_confirm(Start, extracted, Intent(aff, neg, FALSE, None), words), "handle_confirm", aff, neg, FALSE, HasWord(words, "yes"))

\* A fallback that sends the session back to the greeting.
NoHandlerStartsOver ==
    /\ state.current_state = END
    /\ Turn(generate_llm_response(SetState(Start, GREET), "something_went_wrong"), "no_handler", FALSE, FALSE, FALSE, FALSE)

\* process_input when STATE_HANDLERS has no entry for the phase (END).
NoHandler ==
    /\ state.current_state = END
    /\ Turn(generate_llm_response(Start, "something_went_wrong"), "no_handler", FALSE, FALSE, FALSE, FALSE)

\* Another session of the service books a slot that is still free.
OtherSessionBooks ==
    \E i \in 1..Len(appointments) :
        /\ BookWhere(appointments[i], appointments[i].id)
        /\ StrLeq(Today, appointments[i].date)
        /\ appointments' = book_appointment(appointments, appointments[i].id, ID_OTHER, None, None).appointments
        /\ UNCHANGED <<state, patients, change_log, visits, providers, log, mrg, bk, fn>>

Next ==
    \/ MainStart
    \/ HandleGreet
    \/ HandleCheckPatient
    \/ HandleVerifyDob
    \/ HandleConfirmReturning
    \/ HandleCollection
    \/ HandleValidateAddress
    \/ HandleConfirmPatient
    \/ HandleConfirmInsurance
    \/ HandleConfirmAddress
    \/ HandleQueryProviders
    \/ HandleSelectProvider
    \/ HandleSelectTime
    \/ HandleConfirm
    \/ NoHandler
    \/ OtherSessionBooks

Spec == Init /\ [][Next]_vars

----------------------------------------------------------------------------
(* Properties of a session *)

\* The reply of the last turn has a part about this.
Replied(about) == \E i \in 1..Len(log.reply) : log.reply[i].about = about

\* The last turn ran address validation, and its last run failed.
LastValidationFailed ==
    log.validations # << >> /\ log.validations[Len(log.validations)] = "invalid"

IdentityPhases == {CHECK_PATIENT, VERIFY_DOB}

\* The phases whose row of the transition table depends on the state.
ConditionalPhases ==
    {COLLECT_PATIENT, COLLECT_INSURANCE, COLLECT_ADDRESS, VALIDATE_ADDRESS, COLLECT_MEDICAL,
     QUERY_PROVIDERS, SELECT_PROVIDER, SELECT_TIME}

\* C2: every phase the handlers reached from process_input write, outside
\* the identity-resolution phases, is the phase get_next_state gives for the
\* state the write is made in: no write of a phase the table would not
\* produce; and a turn does not end in the phase it began in when the table
\* would leave that phase for the state reached.
C2_PhaseWritesFollowTable ==
    log.handler \notin {"none", "main"} =>
        /\ \A i \in 1..Len(log.writes) :
              log.writes[i].from \notin IdentityPhases => log.writes[i].to = log.writes[i].table
        /\ (state.current_state = log.from /\ state.current_state \in ConditionalPhases /\ ~log.raised) =>
              get_next_state(state) = state.current_state

\* C3: a turn taken in CONFIRM_RETURNING changes the phase only when the
\* user affirms; every other turn leaves the phase at CONFIRM_RETURNING.
C3_ReturningLoopLeavesOnAffirm ==
    (log.handler = "handle_confirm_returning" /\ state.current_state # CONFIRM_RETURNING) => log.aff

\* COLLECT_MEDICAL and the phases after it.
MedicalAndLater == {COLLECT_MEDICAL, QUERY_PROVIDERS, SELECT_PROVIDER, SELECT_TIME, CONFIRM, END}

\* C4: in the returning-patient flow address_validated is unknown (None) only
\* after a CONFIRM_RETURNING turn changed the address, and the session does
\* not reach COLLECT_MEDICAL or a later phase before validation has made it
\* True or False again.
C4_RevalidationBeforeMedical ==
    (state.is_returning /\ state.current_state \in MedicalAndLater) => state.slots["address_validated"] # None

\* The patient the session saves for.
SessionPatientId == IF state.is_returning /\ Truthy(state.patient_id) THEN state.patient_id ELSE NewPatientId

\* The selected appointment's row is not booked for the session's patient.
SelectedNotBookedForPatient ==
    /\ Truthy(state.selected_appointment_id)
    /\ get_appointment_by_id(appointments, state.selected_appointment_id) # << >>
    /\ get_appointment_by_id(appointments, state.selected_appointment_id)[1].patient_id # SessionPatientId

\* C6: when the booking of the final confirmation changes no row because the
\* slot was taken in the meantime, book_appointment's result differs from the
\* result for an unknown appointment id, and the turn neither ends the session
\* with the "booked" reply nor fails.
C6_TakenSlotReported ==
    (log.handler = "handle_confirm" /\ HasWord(log.saves, "book_none") /\ SelectedNotBookedForPatient) =>
        /\ book_appointment(appointments, state.selected_appointment_id, SessionPatientId, None, None).result
              # book_appointment(appointments, ID_NOWHERE, SessionPatientId, None, None).result
        /\ ~(state.current_state = END /\ Replied("appointment_has_been_booked"))
        /\ ~log.raised

\* What save_patient_data is to write, in order, for the session's state.
ExpectedSaves ==
    <<IF state.is_returning /\ Truthy(state.patient_id) THEN "update_patient" ELSE "create_patient">>
    \o (IF Truthy(state.slots["chief_complaint"]) THEN <<"create_visit">> ELSE << >>)
    \o (IF Truthy(state.selected_appointment_id)
        THEN <<IF SelectedNotBookedForPatient THEN "book_none" ELSE "book_ok">>
        ELSE << >>)

\* The session's patient is in the patients table with the slots' values (an
\* update leaves the column of a slot that is None as it was).
PatientSaved ==
    \E i \in 1..Len(patients) :
        /\ patients[i].id = SessionPatientId
        /\ \A f \in PatientFieldSet :
              (state.slots[f] # None \/ ~state.is_returning) =>
                  patients[i][f] = IF f = "address_validated" THEN PyBool(state.slots[f]) ELSE state.slots[f]

\* The visits of the session's patient.
SessionVisits == SelectSeq(visits, LAMBDA v : v.patient_id = SessionPatientId)

C8_NegativeNeverPersists ==
    (log.handler = "handle_confirm" /\ log.neg) =>
        /\ log.saves = << >>
        /\ state.current_state = CONFIRM
        /\ patients = InitialPatients
        /\ visits = << >>

\* C14: in every reachable state no slot holds the empty string: a slot that
\* was not provided holds None, also after merging any record the extractor
\* can return and after loading a returning patient's stored record.
C14_NoEmptyStringSlot == \A k \in SlotNames : state.slots[k] # EmptyStr

------------------------------------------------------------\* The reply of the fallback of process_input.
Apology == <<[fn |-> "generate_llm_response", about |-> "something_went_wrong"]>>

\* C22: a turn taken in END, for which process_input has no handler, answers
\* with the apology, raises nothing and changes no field of the conversation
\* state (nor the store), so the session stays in END.
C22_EndAbsorbing ==
    [][state.current_state = END =>
          /\ state' = state
          /\ <<patients, change_log, visits>>' = <<patients, change_log, visits>>
          /\ log' # log =>
                /\ log'.handler = "no_handler"
                /\ log'.reply = Apology
                /\ ~log'.raised
                /\ log'.writes = << >>]_vars

C22_Witness == state.current_state = END /\ log.handler = "no_handler" /\ log.reply = Apology

\* C24: address_validated is unknown (None) in a session that neither loaded
\* a stored record nor ran a validation: it is None in a new conversation
\* state and stays None until a validation attempt or an accepted suggestion
\* sets it.
C24_AddressValidatedTriState ==
    (~state.is_returning /\ state.address_validation_attempts = 0) =>
        state.slots["address_validated"] = None

\* Some address field differs between the slots before and after the step.
AddressFieldsChange == \E k \in AddressFields : state'.slots[k] # state.slots[k]

C25_ResetTurn ==
    /\ log.handler = "handle_confirm_returning"
    /\ log.validations # << >>
    /\ state.address_validation_attempts = 1

\* The counter is never above 0 when a CONFIRM_RETURNING turn starts.
C25_NoAttemptsBeforeReset == state.current_state = CONFIRM_RETURNING => state.address_validation_attempts = 0

----------------
\* The unfiltered tier, and with it every tier, finds no provider.
NoProviderFound == \A i \in 1..Len(providers) : ~providers[i].accepting_new_patients

\* C16: when all three provider-query tiers return empty, the turn that ran
\* the query ends in CONFIRM, written straight from QUERY_PROVIDERS, with
\* matched_providers empty and no provider or appointment selected; the
\* session is never in SELECT_PROVIDER or SELECT_TIME; and an affirmative
\* turn in CONFIRM still saves the patient and the visit and ends the
\* session, with no appointment booked for the patient.
C16_NoProviderSkipsSelection ==
    NoProviderFound =>
        /\ state.current_state \notin {SELECT_PROVIDER, SELECT_TIME}
        /\ state.matched_providers = << >>
        /\ state.available_slots = << >>
        /\ state.selected_provider_id = None
        /\ state.selected_appointment_id = None
        /\ log.queries > 0 =>
              /\ state.current_state = CONFIRM
              /\ log.writes[Len(log.writes)].from = QUERY_PROVIDERS
              /\ log.writes[Len(log.writes)].to = CONFIRM
        /\ (log.handler = "handle_confirm" /\ (log.aff \/ log.yes)) =>
              /\ state.current_state = END
              /\ ~log.raised
              /\ PatientSaved
              /\ Len(SessionVisits) = 1
              /\ \A i \in 1..Len(appointments) : appointments[i].patient_id # SessionPatientId

\* A session that found no provider was confirmed and saved without a
\* booking.
C16_Witness ==
    /\ NoProviderFound
    /\ log.handler = "handle_confirm"
    /\ state.current_state = END
    /\ state.selected_appointment_id = None
    /\ PatientSaved
    /\ Len(SessionVisits) = 1
    /\ log.saves = <<"create_patient", "create_visit">>

\* The answer of the selection model names none of the listed options.
Unresolved(options, numbers) ==
    numbers = << >> \/ numbers[1] < 1 \/ numbers[1] > Len(options)

\* Nothing of the session or the store changed in the step, and the reply is
\* the given re-prompt alone.
OnlyReprompt(task) ==
    /\ state' = state
    /\ UNCHANGED <<patients, change_log, visits, appointments, providers>>
    /\ log'.writes = << >>
    /\ log'.saves = << >>
    /\ ~log'.raised
    /\ log'.reply = <<[fn |-> "generate_llm_response", about |-> task]>>

\* C17: in SELECT_PROVIDER and in SELECT_TIME, a turn whose selection is
\* unresolved or outside the listed options changes no field of the
\* conversation state (selections, option lists, slots), leaves the phase as
\* it is and only produces a re-prompt.
C17_UnresolvedSelectionFrame ==
    [][\A numbers \in SelectionAnswers :
          /\ ( /\ state.current_state = SELECT_PROVIDER
               /\ Unresolved(state.matched_providers, numbers)
               /\ Turn(handle_select_provider(Start, numbers), "handle_select_provider", FALSE, FALSE, FALSE, FALSE) )
             => OnlyReprompt("could_not_understand_provider")
          /\ ( /\ state.current_state = SELECT_TIME
               /\ Unresolved(state.available_slots, numbers)
               /\ Turn(handle_select_time(Start, numbers), "handle_select_time", FALSE, FALSE, FALSE, FALSE) )
             => OnlyReprompt("could_not_understand_time")]_vars

\* A time selection was not understood: the session rests in SELECT_TIME
\* with its provider chosen and no appointment chosen.
C17_Witness ==
    /\ log.handler = "handle_select_time"
    /\ Replied("could_not_understand_time")
    /\ state.current_state = SELECT_TIME
    /\ state.selected_provider_id # None
    /\ state.selected_appointment_id = None
    /\ Len(state.available_slots) < MaxOptionNumber

\* UserIntent(): every flag false, field_to_update None.
NoIntent == Intent(FALSE, FALSE, FALSE, None)

\* A turn of a handler that reads the user's input, in which extract_slots
\* returned ExtractedSlots(), classify_intent returned UserIntent(), and the
\* input holds neither the word "yes" nor the word "no".
NoInformationTurn ==
    \/ /\ state.current_state = CHECK_PATIENT
       /\ Turn(handle_check_patient(Start, E_none, NoIntent, <<"ok">>), "handle_check_patient", FALSE, FALSE, FALSE, FALSE)
    \/ /\ state.current_state = VERIFY_DOB
       /\ Turn(handle_verify_dob(Start, E_none), "handle_verify_dob", FALSE, FALSE, FALSE, FALSE)
    \/ /\ state.current_state = CONFIRM_RETURNING
       /\ \E api \in ApiOutcomes :
             Turn(handle_confirm_returning(Start, E_none, NoIntent, api), "handle_confirm_returning", FALSE, FALSE, FALSE, FALSE)
    \/ /\ state.current_state \in {COLLECT_PATIENT, COLLECT_INSURANCE, COLLECT_ADDRESS, COLLECT_MEDICAL}
       /\ \E api \in ApiOutcomes :
             Turn(handle_collection(Start, E_none, api, TRUE), "handle_collection", FALSE, FALSE, FALSE, FALSE)
    \/ /\ state.current_state = VALIDATE_ADDRESS
       /\ \E api \in ApiOutcomes :
             Turn(handle_validate_address(Start, E_none, NoIntent, <<"ok">>, api), "handle_validate_address", FALSE, FALSE, FALSE, FALSE)
    \/ /\ state.current_state = CONFIRM_PATIENT
       /\ Turn(handle_confirm_patient(Start, E_none, NoIntent, <<"ok">>, ApiUnused), "handle_confirm_patient", FALSE, FALSE, FALSE, FALSE)
    \/ /\ state.current_state = CONFIRM_INSURANCE
       /\ Turn(handle_confirm_insurance(Start, E_none, NoIntent, <<"ok">>, ApiUnused), "handle_confirm_insurance", FALSE, FALSE, FALSE, FALSE)
    \/ /\ state.current_state = CONFIRM_ADDRESS
       /\ Turn(handle_confirm_address(Start, E_none, NoIntent, <<"ok">>, ApiUnused), "handle_confirm_address", FALSE, FALSE, FALSE, FALSE)
    \/ /\ state.current_state = CONFIRM
       /\ Turn(handle_confirm(Start, E_none, NoIntent, <<"ok">>), "handle_confirm", FALSE, FALSE, FALSE, FALSE)

\* C20: a turn in which extraction yields an all-absent record and intent
\* classification yields all-false/null is handled as "no information
\* provided": nothing is raised, no slot changes, and the reply is a
\* re-prompt in the same phase, in every phase whose handler reads the input.
C20_NoInformationReprompts ==
    [][NoInformationTurn =>
          /\ ~log'.raised
          /\ state'.slots = state.slots
          /\ state'.current_state = state.current_state
          /\ log'.reply # << >>]_vars

(* merge_slots on its own: a ConversationState and an extracted dict are    *)
(* drawn, and merge_slots is called on the state with the same dict again   *)
(* and again.                                                               *)

\* The keys of the extracted dicts: slots of the schema and one key that is
\* not a slot.
MergeKeys == {"first_name", "phone", "zip_code", "nickname"}

\* The values of the extracted dicts: None, the empty string, a name, and a
\* ZIP code that fails _is_valid_slot.
MergeValues == {None, EmptyStr, S_Jane, ZIP_BAD}

\* The largest number of items of an extracted dict.
MaxExtractedLen == 2

\* The largest number of merge_slots calls on one state.
MaxMergeCalls == 2

MergeItems == {<<k, v>> : k \in MergeKeys, v \in MergeValues}

\* A dict has no key twice; its items come in insertion order.
ExtractedDicts ==
    UNION {{d \in [1..n -> MergeItems] : \A i, j \in 1..n : i # j => d[i][1] # d[j][1]} : n \in 0..MaxExtractedLen}

\* The states merge_slots is called on.
MergeStates ==
    {[NewConversationState EXCEPT !.current_state = p,
                                  !.slots = [InitialSlots EXCEPT !["first_name"] = a, !["zip_code"] = b]] :
        p \in {CHECK_PATIENT, CONFIRM}, a \in {None, S_Jane}, b \in {None, ZIP_A}}

\* state.merge_slots(extracted) as a call on a ConversationState: the state
\* afterwards and the list returned.
CallMergeSlots(st, extracted) ==
    LET m == merge_slots(st.slots, extracted)
    IN [st |-> [st EXCEPT !.slots = m.slots], changed |-> m.changed]

InitMerge ==
    /\ state = NewConversationState
    /\ patients = InitialPatients
    /\ change_log = << >>
    /\ visits = << >>
    /\ appointments = InitialAppointments
    /\ providers = ProviderRows
    /\ log = NoTurn
    /\ bk = BkIdle
    /\ fn = FnIdle
    /\ \E st \in MergeStates, extracted \in ExtractedDicts :
          mrg = [extracted |-> extracted, before |-> st, returned |-> << >>, history |-> << >>]

\* One more call of merge_slots with the same dict.
MergeCall ==
    /\ Len(mrg.returned) < MaxMergeCalls
    /\ LET st == IF mrg.history = << >> THEN mrg.before ELSE mrg.history[Len(mrg.history)]
           r == CallMergeSlots(st, mrg.extracted)
       IN mrg' = [mrg EXCEPT !.returned = Append(@, r.changed), !.history = Append(@, r.st)]
    /\ UNCHANGED <<state, patients, change_log, visits, appointments, providers, log, bk, fn>>

NextMerge == MergeCall

SpecMerge == InitMerge /\ [][NextMerge]_vars

\* C9: a second (and any later) call of merge_slots with the same extracted
\* record returns an empty changed list and leaves every slot, and the rest of
\* the state, as the call before left it.
C9_MergeIdempotent ==
    \A i \in 2..Len(mrg.returned) :
        /\ mrg.returned[i] = << >>
        /\ mrg.history[i] = mrg.history[i - 1]

\* A first call that changed a slot has been followed by a second call.
C9_Witness ==
    /\ Len(mrg.returned) >= 2
    /\ mrg.returned[1] # << >>
    /\ mrg.history[1].slots # mrg.before.slots

\* The fields merge_slots is to report for a dict: the keys, in the order
\* visited, that are slots, carry a value, and whose slot held another value.
ExpectedChanged(slots, extracted) ==
    LET differs(item) == item[1] \in SlotNames /\ item[2] # None /\ slots[item[1]] # item[2]
        kept == SelectSeq(extracted, differs)
    IN [i \in 1..Len(kept) |-> kept[i][1]]

\* C10: after merge_slots every recognized field with a non-absent extracted
\* value holds that value, valid or not; the list returned is the fields whose
\* previous value differed, in the order visited; absent values and keys that
\* are not slots change nothing; every other slot and all non-slot state is
\* unchanged.
C10_MergeCorrect ==
    Len(mrg.returned) >= 1 =>
        LET before == mrg.before
            after == mrg.history[1]
            ext == mrg.extracted
            provided(k) == \E i \in 1..Len(ext) : ext[i][1] = k /\ ext[i][2] # None
        IN /\ \A i \in 1..Len(ext) :
                  (ext[i][1] \in SlotNames /\ ext[i][2] # None) => after.slots[ext[i][1]] = ext[i][2]
           /\ mrg.returned[1] = ExpectedChanged(before.slots, ext)
           /\ DOMAIN after.slots = SlotNames
           /\ \A k \in SlotNames : ~provided(k) => after.slots[k] = before.slots[k]
           /\ after = [before EXCEPT !.slots = after.slots]

\* A merge of a dict with a ZIP code that fails the validity predicate and a
\* key that is not a slot: the ZIP code was stored and reported.
C10_Witness ==
    /\ Len(mrg.returned) >= 1
    /\ mrg.extracted = <<<<"nickname", S_Jane>>, <<"zip_code", ZIP_BAD>>>>
    /\ ~_is_valid_slot("zip_code", ZIP_BAD)
    /\ mrg.history[1].slots["zip_code"] = ZIP_BAD
    /\ mrg.returned[1] = <<"zip_code">>

----------------------------------------------------------------------------
(* book_appointment called by several sessions at once, each on its own     *)
(* connection to the one database file.  The UPDATE opens a transaction     *)
(* that holds the database's write lock until the connection commits or is  *)
(* closed; a connection that finds the lock held waits for it.  appointments*)
(* is the committed table.                                                  *)

\* The number of sessions that call book_appointment.
NumSessions == 2

\* The patient each session books for.
SessionPatients == <<ID_P1, ID_OTHER, ID_P2, ID_NEW>>

\* The appointment ids a session asks for: two open slots and an id that is
\* in no row.
BookTargets == {ID_A1, ID_A2, ID_NOWHERE}

\* The table the calls start from: every slot open, or ID_A2 already booked.
BookTables ==
    {InitialAppointments,
     book_appointment(InitialAppointments, ID_A2, ID_OTHER, None, None).appointments}

InitBook ==
    /\ state = NewConversationState
    /\ patients = InitialPatients
    /\ change_log = << >>
    /\ visits = << >>
    /\ providers = ProviderRows
    /\ log = NoTurn
    /\ mrg = MrgIdle
    /\ fn = FnIdle
    /\ appointments \in BookTables
    /\ \E targets \in [1..NumSessions -> BookTargets] :
          bk = [before |-> appointments,
                lock |-> 0,
                sess |-> [s \in 1..NumSessions |->
                            [pc |-> "execute", appointment_id |-> targets[s], patient_id |-> SessionPatients[s],
                             pending |-> << >>, rowcount |-> 0, result |-> << >>]]]

BookFrame == UNCHANGED <<state, patients, change_log, visits, providers, log, mrg, fn>>

\* cursor.execute(UPDATE ...): takes the write lock and runs the conditional
\* update inside the connection's transaction.
BookExecute(s) ==
    /\ bk.sess[s].pc = "execute"
    /\ bk.lock = 0
    /\ LET upd == BookUpdate(appointments, bk.sess[s].appointment_id, bk.sess[s].patient_id, None, None)
       IN bk' = [bk EXCEPT !.lock = s,
                           !.sess[s].pc = "executed",
                           !.sess[s].pending = upd.appointments,
                           !.sess[s].rowcount = upd.rowcount]
    /\ UNCHANGED appointments
    /\ BookFrame

\* rowcount == 0: conn.close() drops the transaction; None is returned.
BookCloseNoRows(s) ==
    /\ bk.sess[s].pc = "executed"
    /\ bk.sess[s].rowcount = 0
    /\ bk' = [bk EXCEPT !.lock = 0, !.sess[s].pc = "done", !.sess[s].pending = << >>, !.sess[s].result = << >>]
    /\ UNCHANGED appointments
    /\ BookFrame

\* conn.commit(); conn.close(): the update becomes the committed table.
BookCommit(s) ==
    /\ bk.sess[s].pc = "executed"
    /\ bk.sess[s].rowcount # 0
    /\ appointments' = bk.sess[s].pending
    /\ bk' = [bk EXCEPT !.lock = 0, !.sess[s].pc = "reread", !.sess[s].pending = << >>]
    /\ BookFrame

\* return self.get_appointment_by_id(appointment_id), on a new connection.
BookReread(s) ==
    /\ bk.sess[s].pc = "reread"
    /\ bk' = [bk EXCEPT !.sess[s].pc = "done",
                        !.sess[s].result = get_appointment_by_id(appointments, bk.sess[s].appointment_id)]
    /\ UNCHANGED appointments
    /\ BookFrame

NextBook ==
    \E s \in 1..NumSessions :
        \/ BookExecute(s)
        \/ BookCloseNoRows(s)
        \/ BookCommit(s)
        \/ BookReread(s)

SpecBook == InitBook /\ [][NextBook]_vars

\* The sessions that asked for appointment a.
Askers(a) == {s \in 1..NumSessions : bk.sess[s].appointment_id = a}

\* The row of appointment a in a table (a is the id of a row).
RowOf(appts, a) == get_appointment_by_id(appts, a)[1]

\* C5: of the sessions that call book_appointment on the same available
\* appointment, exactly one succeeds, whatever the interleaving: the row gets
\* that caller's patient_id and status 'booked', each other caller gets the
\* not-available result (None) and leaves the row as the winner wrote it; no
\* call changes the row of a booked appointment.
C5_BookingAtomic ==
    \A i \in 1..Len(bk.before) :
        LET a == bk.before[i].id
            was == bk.before[i]
            now == RowOf(appointments, a)
            finished == {s \in Askers(a) : bk.sess[s].pc = "done"}
            winners == {s \in finished : bk.sess[s].result # << >>}
            committed == {s \in Askers(a) : bk.sess[s].pc \in {"reread", "done"} /\ bk.sess[s].rowcount # 0}
        IN /\ Cardinality(winners) <= 1
           /\ \A s \in winners :
                 /\ BookWhere(was, a)
                 /\ now = [was EXCEPT !.patient_id = bk.sess[s].patient_id, !.visit_id = None, !.status = "booked", !.reason = None]
                 /\ bk.sess[s].result = <<now>>
           /\ (BookWhere(was, a) /\ finished = Askers(a) /\ finished # {}) => Cardinality(winners) = 1
           /\ ~BookWhere(was, a) => (now = was /\ winners = {})
           /\ Cardinality(committed) <= 1
           /\ committed = {} => now = was

\* Two sessions have called book_appointment on the same open slot and both
\* calls have returned: one with the booked row, one with None.
C5_Witness ==
    /\ bk.sess # << >>
    /\ \E s, t \in 1..NumSessions :
          /\ s # t
          /\ bk.sess[s].appointment_id = ID_A1
          /\ bk.sess[t].appointment_id = ID_A1
          /\ bk.sess[s].pc = "done"
          /\ bk.sess[t].pc = "done"
          /\ bk.sess[s].result # << >>
          /\ bk.sess[t].result = << >>
          /\ RowOf(appointments, ID_A1).patient_id = bk.sess[s].patient_id

----------------------------------------------------------------------------
(* The state_machine.py functions on their own: get_missing_slots,          *)
(* is_phase_complete and get_next_state are called on conversation states   *)
(* drawn from a bounded set that holds absent, empty, valid and invalid     *)
(* values of every required slot.                                           *)

PHONE_SEP == <<"5", "5", "5", "-", "1", "2", " ", "3">>
PHONE_PAREN == <<"(", "5", "5", "5", ")">>

MaxNextCalls == 2

CollectPhases == {COLLECT_PATIENT, COLLECT_INSURANCE, COLLECT_ADDRESS, COLLECT_MEDICAL}

RequiredOf(phase) == {PHASE_REQUIREMENTS(phase)[i] : i \in 1..Len(PHASE_REQUIREMENTS(phase))}

\* The values a required slot takes in the drawn states.
FnSlotValues(slot) ==
    CASE slot = "first_name" -> {None, EmptyStr, S_Jane}
      [] slot = "last_name" -> {None, S_Smith}
      [] slot = "date_of_birth" -> {None, DOB_A, DOB_BAD}
      [] slot = "phone" -> {None, PHONE_A, PHONE_SEP, PHONE_PAREN}
      [] slot = "insurance_payer" -> {None, EmptyStr, INS_A}
      [] slot = "insurance_member_id" -> {None, MEM_A}
      [] slot = "address_line1" -> {None, LINE1_A}
      [] slot = "city" -> {None, CITY_A}
      [] slot = "state" -> {None, ST_CA}
      [] slot = "zip_code" -> {None, EmptyStr, ZIP_A, ZIP_BAD}
      [] slot = "chief_complaint" -> {None, EmptyStr, CC_A}
      [] OTHER -> {None}

\* Slots with every required field of every phase filled with a valid value.
FilledSlots ==
    [k \in SlotNames |->
        CASE k = "first_name" -> S_Jane
          [] k = "last_name" -> S_Smith
          [] k = "date_of_birth" -> DOB_A
          [] k = "phone" -> PHONE_A
          [] k = "insurance_payer" -> INS_A
          [] k = "insurance_member_id" -> MEM_A
          [] k = "address_line1" -> LINE1_A
          [] k = "city" -> CITY_A
          [] k = "state" -> ST_CA
          [] k = "zip_code" -> ZIP_A
          [] k = "chief_complaint" -> CC_A
          [] OTHER -> InitialSlots[k]]

\* The slot records in which the required fields of one phase take every
\* combination of their values, the other fields being all unset or all
\* filled.
PhaseSlotRecords(phase) ==
    LET req == RequiredOf(phase)
        values == UNION {FnSlotValues(k) : k \in req}
        picks == {f \in [req -> values] : \A k \in req : f[k] \in FnSlotValues(k)}
    IN {[k \in SlotNames |-> IF k \in req THEN f[k] ELSE base[k]] : f \in picks, base \in {InitialSlots, FilledSlots}}

FnSlots == UNION {PhaseSlotRecords(phase) : phase \in CollectPhases}

\* Slot records with each collection phase complete or not.
NextSlots ==
    {InitialSlots, FilledSlots,
     [FilledSlots EXCEPT !["zip_code"] = ZIP_BAD, !["phone"] = None],
     [FilledSlots EXCEPT !["insurance_payer"] = EmptyStr, !["chief_complaint"] = None]}

FnStates ==
    {[NewConversationState EXCEPT !.slots = s] : s \in FnSlots}
    \cup
    {[NewConversationState EXCEPT
         !.current_state = current,
         !.is_returning = ret,
         !.slots = [s EXCEPT !["address_validated"] = av],
         !.matched_providers = mp,
         !.selected_provider_id = sp,
         !.selected_appointment_id = sa] :
       current \in States, ret \in BOOLEAN, s \in NextSlots, av \in {None, PyTrue, PyFalse},
       mp \in {<< >>, ProviderRows}, sp \in {None, ID_PROV1}, sa \in {None, ID_A1}}

InitFn ==
    /\ state = NewConversationState
    /\ patients = InitialPatients
    /\ change_log = << >>
    /\ visits = << >>
    /\ appointments = InitialAppointments
    /\ providers = ProviderRows
    /\ log = NoTurn
    /\ mrg = MrgIdle
    /\ bk = BkIdle
    /\ \E st \in FnStates : fn = [FnIdle EXCEPT !.before = st, !.st = st]

FnFrame == UNCHANGED <<state, patients, change_log, visits, appointments, providers, log, mrg, bk>>

\* The phases the two completion functions are called with: the keys of the
\* requirement table and phases that are not keys of it.
FnPhases == CollectPhases \cup {GREET, VALIDATE_ADDRESS, CONFIRM, END}

\* The record of a call: the state drawn, the state object as the call left
\* it, and what the call returned; nexts holds what the calls of
\* get_next_state made in a row returned.
FnCall(st, op) == [FnIdle EXCEPT !.before = fn.before, !.st = st, !.op = op]

\* state.get_missing_slots(phase)
FnGetMissingSlots ==
    /\ \E phase \in FnPhases :
          fn' = [FnCall(fn.st, "get_missing_slots") EXCEPT
                    !.phase = phase, !.missing = get_missing_slots(fn.st.slots, phase)]
    /\ FnFrame

\* state.is_phase_complete(phase)
FnIsPhaseComplete ==
    /\ \E phase \in FnPhases :
          fn' = [FnCall(fn.st, "is_phase_complete") EXCEPT
                    !.phase = phase, !.complete = is_phase_complete(fn.st.slots, phase)]
    /\ FnFrame

\* get_next_state(state), once more on the same state object.
FnGetNextState ==
    /\ Len(fn.nexts) < MaxNextCalls
    /\ LET r == CallGetNextState(fn.st)
       IN fn' = [FnCall(r.st, "get_next_state") EXCEPT !.nexts = Append(fn.nexts, r.returned)]
    /\ FnFrame

NextFn == FnGetMissingSlots \/ FnIsPhaseComplete \/ FnGetNextState

SpecFn == InitFn /\ [][NextFn]_vars

\* What the completion check has to report for one field: the field is
\* absent, or present and failing its validity rule.
AbsentOrInvalid(slot, value) ==
    \/ value \in {None, EmptyStr}
    \/ slot = "phone" /\ \E i \in 1..Len(value) : value[i] \notin Digits \cup {"-", " "}
    \/ slot = "phone" /\ \A i \in 1..Len(value) : value[i] \notin Digits
    \/ slot = "date_of_birth" /\ ~MatchesDobShape(value)
    \/ slot = "zip_code" /\ \E i \in 1..Len(value) : value[i] \notin Digits

\* The row of the requirement table, filtered in table order.
RECURSIVE ExpectedMissing(_, _)
ExpectedMissing(slots, row) ==
    IF row = << >> THEN << >>
    ELSE (IF AbsentOrInvalid(Head(row), slots[Head(row)]) THEN <<Head(row)>> ELSE << >>)
         \o ExpectedMissing(slots, Tail(row))

RequirementTable ==
    [p \in CollectPhases |->
        CASE p = COLLECT_PATIENT -> <<"first_name", "last_name", "date_of_birth", "phone">>
          [] p = COLLECT_INSURANCE -> <<"insurance_payer", "insurance_member_id">>
          [] p = COLLECT_ADDRESS -> <<"address_line1", "city", "state", "zip_code">>
          [] p = COLLECT_MEDICAL -> <<"chief_complaint">>]

\* C11: for each of the four collection phases and every state,
\* get_missing_slots(P) is exactly the required fields of P, in requirement
\* table order, that are absent or fail the validity predicate;
\* is_phase_complete(P) is true iff that list is empty; for a phase with no
\* requirements the list is empty (and the phase is complete).
C11_MissingSlotsExact ==
    LET expected == IF fn.phase \in CollectPhases
                    THEN ExpectedMissing(fn.st.slots, RequirementTable[fn.phase])
                    ELSE << >>
    IN /\ fn.op = "get_missing_slots" => fn.missing = expected
       /\ fn.op = "is_phase_complete" => (fn.complete <=> expected = << >>)

\* A required phone that is present but not numeric and a zip code that is
\* empty are both reported, after a valid field that is not.
C11_Witness ==
    \/ /\ fn.op = "get_missing_slots"
       /\ fn.phase = COLLECT_PATIENT
       /\ fn.st.slots["phone"] = PHONE_PAREN
       /\ fn.st.slots["date_of_birth"] = DOB_BAD
       /\ fn.st.slots["first_name"] = S_Jane
       /\ fn.missing = <<"last_name", "date_of_birth", "phone">>
    \/ /\ fn.op = "is_phase_complete"
       /\ fn.phase = COLLECT_ADDRESS
       /\ fn.st.slots["zip_code"] = ZIP_BAD
       /\ fn.st.slots["city"] = CITY_A
       /\ ~fn.complete

\* The transition table as the specification prints it: the phase that
\* follows the phase of st, for the phases the table has a row for.
TableRows == States \ {VERIFY_DOB, END}

TableNext(st) ==
    LET p == st.current_state
        complete == ExpectedMissing(st.slots, RequirementTable[p]) = << >>
    IN CASE p = GREET -> CHECK_PATIENT
         [] p = CHECK_PATIENT /\ st.is_returning -> CONFIRM_RETURNING
         [] p = CHECK_PATIENT /\ ~st.is_returning -> COLLECT_PATIENT
         [] p = CONFIRM_RETURNING -> COLLECT_MEDICAL
         [] p = COLLECT_PATIENT /\ complete -> CONFIRM_PATIENT
         [] p = CONFIRM_PATIENT -> COLLECT_INSURANCE
         [] p = COLLECT_INSURANCE /\ complete -> CONFIRM_INSURANCE
         [] p = CONFIRM_INSURANCE -> COLLECT_ADDRESS
         [] p = COLLECT_ADDRESS /\ complete -> VALIDATE_ADDRESS
         [] p = VALIDATE_ADDRESS /\ st.slots["address_validated"] \in {PyTrue, PyFalse} -> CONFIRM_ADDRESS
         [] p = VALIDATE_ADDRESS /\ st.slots["address_validated"] = None -> COLLECT_ADDRESS
         [] p = CONFIRM_ADDRESS -> COLLECT_MEDICAL
         [] p = COLLECT_MEDICAL /\ complete -> QUERY_PROVIDERS
         [] p = QUERY_PROVIDERS /\ Len(st.matched_providers) > 0 -> SELECT_PROVIDER
         [] p = SELECT_PROVIDER /\ st.selected_provider_id # None -> SELECT_TIME
         [] p = SELECT_TIME /\ st.selected_appointment_id # None -> CONFIRM
         [] p = CONFIRM -> END
         [] OTHER -> p

\* C12: get_next_state agrees with the transition table for every phase the
\* table has a row for and every state: the fixed successors, the
\* is_returning branch, each COLLECT_X advancing iff X is complete and staying
\* otherwise, VALIDATE_ADDRESS going to CONFIRM_ADDRESS iff address_validated
\* is not null and back to COLLECT_ADDRESS otherwise, the three provider
\* phases advancing iff providers were found / a provider / a slot was chosen,
\* and CONFIRM going to END.
C12_NextStateFollowsTable ==
    (fn.op = "get_next_state" /\ fn.before.current_state \in TableRows)
        => fn.nexts[1] = TableNext(fn.before)

\* A failed validation (False, not null) still moves VALIDATE_ADDRESS on to
\* CONFIRM_ADDRESS.
C12_Witness ==
    /\ fn.op = "get_next_state"
    /\ fn.before.current_state = VALIDATE_ADDRESS
    /\ fn.before.slots["address_validated"] = PyFalse
    /\ fn.nexts[1] = CONFIRM_ADDRESS

----------------------------------------------------------------------------
(* handle_query_providers on its own: a session resting in QUERY_PROVIDERS  *)
(* and a providers table are drawn, and the handler runs once.  The tables  *)
(* are the sub-tables of a pool that holds more than five accepting         *)
(* providers, with and without the session's insurer and complaint.         *)

INS_K == <<"K", "a", "i", "s", "e", "r">>

PoolRow(n, insurance_accepted, conditions_treated, rating, accepting) ==
    [id |-> <<"p", "r", "o", "v", n>>, name |-> <<"D", "r", ".", " ", n>>, specialty |-> SPEC_GP,
     insurance_accepted |-> insurance_accepted, conditions_treated |-> conditions_treated,
     rating |-> rating, accepting_new_patients |-> accepting]

\* Rows of the providers table (schema.py), ratings in tenths.
ProviderPool ==
    ProviderRows \o
    <<PoolRow("3", JSON_INS_1, JSON_COND_2, 50, TRUE),
      PoolRow("4", JSON_INS_1, JSON_COND_1, 49, FALSE),
      PoolRow("5", JSON_INS_2, JSON_COND_1, 47, TRUE),
      PoolRow("6", JSON_INS_2, JSON_COND_2, 30, TRUE),
      PoolRow("7", JSON_INS_2, JSON_COND_2, 46, TRUE)>>

PoolTables ==
    {LET in(r) == \E i \in keep : ProviderPool[i] = r IN SelectSeq(ProviderPool, in) :
        keep \in SUBSET (1..Len(ProviderPool))}

\* Sessions at rest in QUERY_PROVIDERS: every collection phase complete, the
\* insurer one that pool providers accept or one that none accepts.
QuerySessions ==
    {[NewConversationState EXCEPT
         !.current_state = QUERY_PROVIDERS,
         !.slots = [FilledSlots EXCEPT !["insurance_payer"] = ins, !["address_validated"] = PyTrue]] :
       ins \in {INS_A, INS_K}}

InitQuery ==
    /\ state \in QuerySessions
    /\ patients = InitialPatients
    /\ change_log = << >>
    /\ visits = << >>
    /\ appointments = InitialAppointments
    /\ providers \in PoolTables
    /\ log = NoTurn
    /\ mrg = MrgIdle
    /\ bk = BkIdle
    /\ fn = FnIdle

NextQuery == HandleQueryProviders

SpecQuery == InitQuery /\ [][NextQuery]_vars

\* The accepting providers of the table that pass a tier's filters.
TierMatches(tier) ==
    {i \in 1..Len(providers) :
        /\ providers[i].accepting_new_patients
        /\ tier \in {1, 2} => LikeContains(providers[i].insurance_accepted, state.slots["insurance_payer"])
        /\ tier = 1 => LikeContains(providers[i].conditions_treated, state.slots["chief_complaint"])}

\* The first tier with a match; 0 when all three are empty.
FirstTier ==
    IF TierMatches(1) # {} THEN 1 ELSE IF TierMatches(2) # {} THEN 2 ELSE IF TierMatches(3) # {} THEN 3 ELSE 0

\* C15: handle_query_providers tries (insurance AND condition), then
\* insurance only, then unfiltered, and stops at the first tier that returns
\* providers; matched_providers is that tier's result -- its best rated
\* providers, at most 5, in descending rating order -- and the phase becomes
\* SELECT_PROVIDER.
C15_QueryFallback ==
    (log.handler = "handle_query_providers" /\ FirstTier # 0) =>
        LET tier == TierMatches(FirstTier)
            listed == state.matched_providers
            ids == {listed[i].id : i \in 1..Len(listed)}
        IN /\ state.current_state = SELECT_PROVIDER
           /\ Len(listed) = (IF Cardinality(tier) < 5 THEN Cardinality(tier) ELSE 5)
           /\ Cardinality(ids) = Len(listed)
           /\ \A i \in 1..Len(listed) : \E j \in tier :
                 /\ providers[j].id = listed[i].id
                 /\ providers[j].name = listed[i].name
                 /\ providers[j].rating = listed[i].rating
           /\ \A i \in 1..(Len(listed) - 1) : listed[i].rating >= listed[i + 1].rating
           /\ \A j \in tier : providers[j].id \notin ids => providers[j].rating <= listed[Len(listed)].rating

\* The fallback to insurance only: no provider of the table treats the
\* complaint with the session's insurer, two accept the insurer.
C15_Witness ==
    /\ log.handler = "handle_query_providers"
    /\ state.slots["insurance_payer"] = INS_A
    /\ TierMatches(1) = {}
    /\ Cardinality(TierMatches(2)) = 1
    /\ Cardinality(TierMatches(3)) > 1
    /\ Len(state.matched_providers) = 1
    /\ state.current_state = SELECT_PROVIDER
----------------------------------------------------------------------------
(* The phase confirmations on their own: a session resting in               *)
(* CONFIRM_PATIENT, CONFIRM_INSURANCE or CONFIRM_ADDRESS is drawn, with the  *)
(* phases behind it complete and the phases ahead of it unset, partly set   *)
(* or complete (handle_collection merges every field the user volunteers,   *)
(* whatever the phase), and the confirmation handlers run.                  *)

ConfirmPhases == {CONFIRM_PATIENT, CONFIRM_INSURANCE, CONFIRM_ADDRESS}

\* The collection phases behind and ahead of a confirmation phase.
PhasesBehind(p) ==
    CASE p = CONFIRM_PATIENT -> {COLLECT_PATIENT}
      [] p = CONFIRM_INSURANCE -> {COLLECT_PATIENT, COLLECT_INSURANCE}
      [] p = CONFIRM_ADDRESS -> {COLLECT_PATIENT, COLLECT_INSURANCE, COLLECT_ADDRESS}

PhasesAhead(p) == CollectPhases \ PhasesBehind(p)

\* Single fields a user volunteers ahead of their phase.
VolunteeredFields == {"insurance_payer", "city"}

\* Slots with the given fields filled and the rest as a new session has them.
FilledIn(fields) == [k \in SlotNames |-> IF k \in fields THEN FilledSlots[k] ELSE InitialSlots[k]]

AdvanceSessions ==
    {[NewConversationState EXCEPT
         !.current_state = p,
         !.slots = [FilledIn(UNION {RequiredOf(q) : q \in PhasesBehind(p) \cup ahead} \cup single)
                       EXCEPT !["address_validated"] = IF p = CONFIRM_ADDRESS THEN PyTrue ELSE PyFalse],
         !.address_validation_attempts = IF p = CONFIRM_ADDRESS THEN 1 ELSE 0] :
       p \in ConfirmPhases, ahead \in SUBSET CollectPhases, single \in SUBSET VolunteeredFields}

InitAdvance ==
    /\ state \in AdvanceSessions
    /\ patients = InitialPatients
    /\ change_log = << >>
    /\ visits = << >>
    /\ appointments = InitialAppointments
    /\ providers \in ProviderTables
    /\ log = NoTurn
    /\ mrg = MrgIdle
    /\ bk = BkIdle
    /\ fn = FnIdle

NextAdvance == HandleConfirmPatient \/ HandleConfirmInsurance \/ HandleConfirmAddress

SpecAdvance == InitAdvance /\ [][NextAdvance]_vars

\* The collection phase a confirmation phase hands over to, and the phase
\* that follows a collection phase once it is complete (transition table).
AfterConfirm(p) ==
    CASE p = CONFIRM_PATIENT -> COLLECT_INSURANCE
      [] p = CONFIRM_INSURANCE -> COLLECT_ADDRESS
      [] p = CONFIRM_ADDRESS -> COLLECT_MEDICAL

AfterCollect(q) ==
    CASE q = COLLECT_INSURANCE -> CONFIRM_INSURANCE
      [] q = COLLECT_ADDRESS -> VALIDATE_ADDRESS
      [] q = COLLECT_MEDICAL -> QUERY_PROVIDERS

\* Where a turn may come to rest after passing a complete collection phase:
\* at the confirmation of it, at the selection, or at the correction of an
\* address that failed validation.
RestAfter(q) ==
    CASE q = COLLECT_INSURANCE -> {CONFIRM_INSURANCE}
      [] q = COLLECT_ADDRESS -> {VALIDATE_ADDRESS, CONFIRM_ADDRESS}
      [] q = COLLECT_MEDICAL -> {SELECT_PROVIDER, CONFIRM}

AffirmedPhaseConfirm ==
    /\ log.handler \in {"handle_confirm_patient", "handle_confirm_insurance", "handle_confirm_address"}
    /\ log.aff \/ log.yes

\* C18: after an affirmative turn in CONFIRM_PATIENT, CONFIRM_INSURANCE or
\* CONFIRM_ADDRESS the phase advances as the transition table says and, in
\* the same turn, on through the next collection phase when its required
\* fields are already complete; the turn comes to rest at the first phase
\* that has missing data or needs the user's confirmation or selection, and
\* never in a collection phase that is already complete.
C18_AutoAdvance ==
    AffirmedPhaseConfirm =>
        LET q == AfterConfirm(log.from)
            complete == ExpectedMissing(state.slots, RequirementTable[q]) = << >>
        IN /\ ~log.raised
           /\ log.writes[1].from = log.from
           /\ log.writes[1].to = q
           /\ IF complete
              THEN /\ Len(log.writes) >= 2
                   /\ log.writes[2].from = q
                   /\ log.writes[2].to = AfterCollect(q)
                   /\ state.current_state \in RestAfter(q)
              ELSE /\ Len(log.writes) = 1
                   /\ state.current_state = q
           /\ ~(state.current_state \in CollectPhases
                  /\ ExpectedMissing(state.slots, RequirementTable[state.current_state]) = << >>)

\* The user confirmed the patient data with the insurance already given:
\* the turn passed COLLECT_INSURANCE and rests in CONFIRM_INSURANCE.
C18_Witness ==
    /\ log.handler = "handle_confirm_patient"
    /\ log.aff
    /\ Len(log.writes) = 2
    /\ state.current_state = CONFIRM_INSURANCE
    /\ state.slots["insurance_member_id"] = MEM_A
----------------------------------------------------------------------------
(* handle_check_patient on its own: a session at its first question and a   *)
(* patients table are drawn, and the user's answer carries any mix of a     *)
(* phone, an email and a name with or without a date of birth, each one     *)
(* matching the first patient, the second patient or nobody.                *)

EMAIL_A == <<"j", "@", "x">>
EMAIL_B == <<"a", "@", "x">>
EMAIL_X == <<"z", "@", "x">>

IdentityStores ==
    LET pa == [P1 EXCEPT !.email = EMAIL_A]
        pb == [P_OTHER EXCEPT !.email = EMAIL_B]
    IN {<<pa, pb>>, <<pb, pa>>, <<pa>>, <<pb>>}

\* Records extract_slots can return for the answer.
IdentityRecords ==
    {phone \o email \o name :
        phone \in {<< >>, <<<<"phone", PHONE_A>>>>, <<<<"phone", PHONE_B>>>>},
        email \in {<< >>, <<<<"email", EMAIL_B>>>>, <<<<"email", EMAIL_X>>>>},
        name \in {<< >>, E_name, E_name \o E_dobA, E_name \o E_dobC,
                  <<<<"first_name", S_Al>>, <<"last_name", S_Ng>>, <<"date_of_birth", DOB_C>>>>}}

InitIdentity ==
    /\ state = [NewConversationState EXCEPT !.current_state = CHECK_PATIENT]
    /\ patients \in IdentityStores
    /\ change_log = << >>
    /\ visits = << >>
    /\ appointments = InitialAppointments
    /\ providers = ProviderRows
    /\ log = NoTurn
    /\ mrg = MrgIdle
    /\ bk = BkIdle
    /\ fn = FnIdle

\* The turn of handle_check_patient for one answer.
CheckPatientTurn(extracted, neg, words) ==
    Turn(handle_check_patient(Start, extracted, Intent(FALSE, neg, FALSE, None), words), "handle_check_patient", FALSE, neg, FALSE, FALSE)

IdentityAnswer ==
    /\ state.current_state = CHECK_PATIENT
    /\ \E extracted \in IdentityRecords, neg \in BOOLEAN, words \in NoUtterances :
          CheckPatientTurn(extracted, neg, words)

NextIdentity == IdentityAnswer

SpecIdentity == InitIdentity /\ [][NextIdentity]_vars

\* The value the lookup gets for a key: what the answer gave, else what the
\* session already held.
RECURSIVE KeyGiven(_, _)
KeyGiven(extracted, key) ==
    IF extracted = << >> THEN state.slots[key]
    ELSE IF Head(extracted)[1] = key THEN Head(extracted)[2]
    ELSE KeyGiven(Tail(extracted), key)

\* The stored patients a key matches; none when the key is absent.
PhoneHits(extracted) ==
    {i \in 1..Len(patients) : KeyGiven(extracted, "phone") # None /\ patients[i].phone = KeyGiven(extracted, "phone")}

EmailHits(extracted) ==
    {i \in 1..Len(patients) : KeyGiven(extracted, "email") # None /\ patients[i].email = KeyGiven(extracted, "email")}

NameDobHits(extracted) ==
    {i \in 1..Len(patients) :
        /\ \A k \in {"first_name", "last_name", "date_of_birth"} : KeyGiven(extracted, k) # None
        /\ \A k \in {"first_name", "last_name", "date_of_birth"} : patients[i][k] = KeyGiven(extracted, k)}

\* The matches of the first key that matches anybody.
IdentityHits(extracted) ==
    IF PhoneHits(extracted) # {} THEN PhoneHits(extracted)
    ELSE IF EmailHits(extracted) # {} THEN EmailHits(extracted)
    ELSE NameDobHits(extracted)

\* C19: identity resolution in CHECK_PATIENT looks up by phone, then email,
\* then exact (first name, last name, date of birth); the first key that
\* matches a stored patient wins, a later key counting only when every
\* earlier key is absent or unmatched; on a hit the session becomes returning
\* with patient_id set to the matched record, the record loaded into the
\* slots, and phase CONFIRM_RETURNING; with no hit it does not become
\* returning.
C19_IdentityPrecedence ==
    [][\A extracted \in IdentityRecords, neg \in BOOLEAN, words \in NoUtterances :
          (state.current_state = CHECK_PATIENT /\ CheckPatientTurn(extracted, neg, words)) =>
              IF IdentityHits(extracted) # {}
              THEN \E i \in IdentityHits(extracted) :
                      /\ state'.is_returning
                      /\ state'.patient_id = patients[i].id
                      /\ state'.current_state = CONFIRM_RETURNING
                      /\ \A f \in PatientFieldSet : state'.slots[f] = patients[i][f]
              ELSE /\ ~state'.is_returning
                   /\ state'.patient_id = None
                   /\ state'.current_state # CONFIRM_RETURNING]_vars

\* The second patient of the table was recognised although the first one is
\* stored too: the session is returning with the second record loaded.
C19_Witness ==
    /\ log.handler = "handle_check_patient"
    /\ state.is_returning
    /\ state.current_state = CONFIRM_RETURNING
    /\ Len(patients) = 2
    /\ state.patient_id = patients[2].id
    /\ state.slots["email"] = EMAIL_B
    /\ state.slots["phone"] = PHONE_C
----------------------------------------------------------------------------
(* Address validation against a failing service: sessions that have the     *)
(* patient and insurance phases behind them and are asked for the address,  *)
(* with every way the service call can end.                                 *)

\* The validation calls a session of this specification makes at most.
MaxAttempts == 3

\* The service call ending in each failure validate_address_raw can meet.
ServiceFailures ==
    {[kind |-> k, is_valid |-> FALSE, formatted_address |-> None] : k \in AddressValidationErrors \cup OtherExceptions}

ServiceAnswers == ApiOutcomes \cup ServiceFailures

\* Sessions in COLLECT_ADDRESS with none or part of the address given.
ValidateSessions ==
    {[NewConversationState EXCEPT
         !.current_state = COLLECT_ADDRESS,
         !.slots = FilledIn(RequiredOf(COLLECT_PATIENT) \cup RequiredOf(COLLECT_INSURANCE) \cup given)] :
       given \in {{}, {"address_line1"}, {"address_line1", "state", "zip_code"}}}

InitValidate ==
    /\ state \in ValidateSessions
    /\ patients = InitialPatients
    /\ change_log = << >>
    /\ visits = << >>
    /\ appointments = InitialAppointments
    /\ providers \in ProviderTables
    /\ log = NoTurn
    /\ mrg = MrgIdle
    /\ bk = BkIdle
    /\ fn = FnIdle

\* A COLLECT_ADDRESS turn with the service answering in any way.
CollectAddressTurn(extracted, api) ==
    /\ state.current_state = COLLECT_ADDRESS
    /\ state.address_validation_attempts < MaxAttempts
    /\ Turn(handle_collection(Start, extracted, api, TRUE), "handle_collection", FALSE, FALSE, FALSE, FALSE)

\* A VALIDATE_ADDRESS turn with the service answering in any way.
ValidateAddressTurn(extracted, aff, words, api) ==
    /\ state.current_state = VALIDATE_ADDRESS
    /\ state.address_validation_attempts < MaxAttempts
    /\ Turn(handle_validate_address(Start, extracted, Intent(aff, FALSE, FALSE, None), words, api),
            "handle_validate_address", aff, FALSE, FALSE, HasWord(words, "yes"))

CollectAddressAnswer ==
    \E extracted \in ExtractedRecords(COLLECT_ADDRESS), api \in ServiceAnswers : CollectAddressTurn(extracted, api)

ValidateAddressAnswer ==
    \E extracted \in ExtractedRecords(VALIDATE_ADDRESS), aff \in BOOLEAN, words \in YesUtterances, api \in ServiceAnswers :
        ValidateAddressTurn(extracted, aff, words, api)

NextValidate == CollectAddressAnswer \/ ValidateAddressAnswer

SpecValidate == InitValidate /\ [][NextValidate]_vars

\* What the claim requires of a turn that called the validator.
CountedAsOneFailure ==
    /\ ~log'.raised
    /\ log'.validations = <<"invalid">>
    /\ state'.address_validation_attempts = state.address_validation_attempts + 1

\* C21: every address-service failure (timeout, connection error, missing or
\* bad key, non-2xx status, malformed response) met by a turn that calls the
\* validator is turned into an invalid result, counts as exactly one attempt,
\* and no exception leaves the turn.
C21_ServiceFailureIsInvalidResult ==
    [][\A api \in ServiceFailures :
          /\ \A extracted \in ExtractedRecords(COLLECT_ADDRESS) :
                (CollectAddressTurn(extracted, api) /\ log'.validations # << >>) => CountedAsOneFailure
          /\ \A extracted \in ExtractedRecords(VALIDATE_ADDRESS), aff \in BOOLEAN, words \in YesUtterances :
                (ValidateAddressTurn(extracted, aff, words, api) /\ log'.validations # << >>) => CountedAsOneFailure]_vars

\* The same for the failures validate_address_raw reports as
\* AddressValidationError.
C21_ReportedFailureIsInvalidResult ==
    [][\A api \in {f \in ServiceFailures : f.kind \in AddressValidationErrors} :
          /\ \A extracted \in ExtractedRecords(COLLECT_ADDRESS) :
                (CollectAddressTurn(extracted, api) /\ log'.validations # << >>) => CountedAsOneFailure
          /\ \A extracted \in ExtractedRecords(VALIDATE_ADDRESS), aff \in BOOLEAN, words \in YesUtterances :
                (ValidateAddressTurn(extracted, aff, words, api) /\ log'.validations # << >>) => CountedAsOneFailure]_vars

\* A malformed 200 response left the turn as an exception, counted.
C21_Escaped == log.raised /\ log.validations = <<"raised">> /\ state.address_validation_attempts >= 1
----------------------------------------------------------------------------
(* slot_extractor.py: ExtractedSlots.normalize_phone on its own, followed   *)
(* by the validity check the state machine applies to the stored phone.     *)

\* A normalization that drops a leading 1 whatever the number of digits.
normalize_phone_any_length(v) ==
    IF ~Truthy(v) THEN None
    ELSE LET isDigit(ch) == ch \in Digits
             digits == SelectSeq(v, isDigit)
         IN IF digits = << >> THEN None
            ELSE IF digits[1] = "1" THEN Tail(digits)
            ELSE digits

\* ExtractedSlots.normalize_phone: re.sub(r"\D", "", v) keeps the digits.
normalize_phone(v) ==
    IF ~Truthy(v) THEN None
    ELSE LET isDigit(ch) == ch \in Digits
             digits == SelectSeq(v, isDigit)
         IN IF digits = << >> THEN None
            ELSE IF Len(digits) = 11 /\ digits[1] = "1" THEN Tail(digits)
            ELSE digits

\* The longest run of digits, and the longest arbitrary string, given as a
\* phone.
MaxPhoneDigits == 12
MaxShortLen == 3

PhoneChars == {"1", "5", "-", " ", "x"}

\* Every string of at most MaxShortLen characters.
ShortPhones == UNION {[1..n -> PhoneChars] : n \in 0..MaxShortLen}

\* Digits written in groups of three with a separator between the groups.
RECURSIVE Grouped(_, _)
Grouped(ds, sep) ==
    IF Len(ds) <= 3 THEN ds
    ELSE SubSeq(ds, 1, 3) \o sep \o Grouped(SubSeq(ds, 4, Len(ds)), sep)

\* Phone numbers as users write them: an optional country prefix or opening
\* bracket, then up to MaxPhoneDigits digits, plain or grouped.
WrittenPhones ==
    {prefix \o Grouped([i \in 1..n |-> d], sep) :
        prefix \in {<< >>, <<"1">>, <<"+", "1", " ">>, <<"(">>},
        n \in 0..MaxPhoneDigits,
        sep \in {<< >>, <<"-">>, <<" ">>, <<".">>},
        d \in {"1", "5"}}

PhoneInputs == {None} \cup ShortPhones \cup WrittenPhones

InitPhone ==
    /\ state = NewConversationState
    /\ patients = InitialPatients
    /\ change_log = << >>
    /\ visits = << >>
    /\ appointments = InitialAppointments
    /\ providers = ProviderRows
    /\ log = NoTurn
    /\ mrg = MrgIdle
    /\ bk = BkIdle
    /\ fn \in {[op |-> "none", v |-> v, result |-> None, valid |-> FALSE] : v \in PhoneInputs}

\* ExtractedSlots(phone=v): the validator runs on the raw value.
NormalizePhone ==
    /\ fn.op = "none"
    /\ fn' = [fn EXCEPT !.op = "normalize_phone", !.result = normalize_phone(fn.v)]
    /\ FnFrame

\* The phone, merged into the slots, is tested by _is_valid_slot.
ValidatePhone ==
    /\ fn.op = "normalize_phone"
    /\ fn.result # None
    /\ fn' = [fn EXCEPT !.op = "_is_valid_slot", !.valid = _is_valid_slot("phone", fn.result)]
    /\ FnFrame

NextPhone == NormalizePhone \/ ValidatePhone

SpecPhone == InitPhone /\ [][NextPhone]_vars

\* The digits of a string, in order.
RECURSIVE DigitsOf(_)
DigitsOf(s) ==
    IF s = << >> \/ s = None THEN << >>
    ELSE (IF Head(s) \in Digits THEN <<Head(s)>> ELSE << >>) \o DigitsOf(Tail(s))

\* C23: the normalized phone is the input's digits; eleven digits starting
\* with 1 lose the leading 1, any other number of digits is kept as is, no
\* digit at all gives absent; and every result that is not absent is a valid
\* phone.
C23_PhoneNormalization ==
    LET d == DigitsOf(fn.v)
    IN /\ fn.op \in {"normalize_phone", "_is_valid_slot"} =>
             fn.result = (IF d = << >> THEN None
                          ELSE IF Len(d) = 11 /\ d[1] = "1" THEN SubSeq(d, 2, 11)
                          ELSE d)
       /\ fn.op = "_is_valid_slot" => fn.valid

\* An eleven-digit number written with a country code and separators came
\* out as its ten digits and was found valid.
C23_Witness ==
    /\ fn.op = "_is_valid_slot"
    /\ fn.valid
    /\ fn.v # DigitsOf(fn.v)
    /\ Len(DigitsOf(fn.v)) = 11
    /\ Len(fn.result) = 10
----------------------------------------------------------------------------
(* do_address_validation as a function of the session it is called on *)

\* The effect the valid branch must have on a session: the flag, the phase,
\* the corrected components written over the slots, nothing else touched.
ValidEffect(before, after, result) ==
    LET comps == result.corrected_components
        written == {comps[i][1] : i \in 1..Len(comps)}
    IN /\ after.slots["address_validated"] = PyTrue
       /\ after.current_state = CONFIRM_ADDRESS
       /\ \A i \in 1..Len(comps) : after.slots[comps[i][1]] = comps[i][2]
       /\ \A k \in SlotNames \ (written \cup {"address_validated"}) : after.slots[k] = before.slots[k]

\* C26: do_address_validation, called on any session with a complete address
\* and whatever the service answers, adds exactly 1 to the attempt counter;
\* when the validator reports the address valid it sets address_validated to
\* true, writes the validator's corrected components (if any) over the
\* address slots and sets the phase to CONFIRM_ADDRESS.  A turn that ran a
\* valid validation ends in that state.
C26_DoAddressValidation ==
    /\ is_phase_complete(state.slots, COLLECT_ADDRESS) =>
          \A api \in ServiceAnswers :
              LET sl == state.slots
                  c == do_address_validation(Start, api)
                  result == validate_address(sl["address_line1"], sl["city"], sl["state"], sl["zip_code"], api)
              IN /\ c.st.address_validation_attempts = state.address_validation_attempts + 1
                 /\ Len(c.validations) = 1
                 /\ result.is_valid => ValidEffect(state, c.st, result)
    /\ log.validations = <<"valid">> =>
          (state.slots["address_validated"] = PyTrue /\ state.current_state = CONFIRM_ADDRESS)
    /\ Len(log.validations) <= 1

\* A turn validated the address on the second attempt and the session is
\* in CONFIRM_ADDRESS with the address marked validated.
C26_Witness ==
    /\ log.validations = <<"valid">>
    /\ state.address_validation_attempts = 2
    /\ state.slots["address_validated"] = PyTrue
    /\ state.current_state = CONFIRM_ADDRESS

\* C27: a validation that fails with fewer than 2 attempts used stores the
\* validator's suggestion (None if it gave none) and leaves the session in
\* VALIDATE_ADDRESS; a VALIDATE_ADDRESS turn, accepting the suggestion or
\* giving new input, ends with no suggestion pending; so a suggestion is
\* pending only while the phase is VALIDATE_ADDRESS.
C27_SuggestionLifecycle ==
    [][/\ is_phase_complete(state.slots, COLLECT_ADDRESS) =>
             \A api \in ApiOutcomes :
                 LET sl == state.slots
                     c == do_address_validation(Start, api)
                     result == validate_address(sl["address_line1"], sl["city"], sl["state"], sl["zip_code"], api)
                 IN (~result.is_valid /\ c.st.address_validation_attempts < 2) =>
                        /\ c.st.pending_address_suggestion = result.suggested_address
                        /\ c.st.current_state = VALIDATE_ADDRESS
       /\ (state' # state /\ log'.validations = <<"invalid">> /\ state'.address_validation_attempts < 2) =>
             state'.current_state = VALIDATE_ADDRESS
       /\ (state' # state /\ state.current_state = VALIDATE_ADDRESS) =>
             state'.pending_address_suggestion = None
       /\ state'.pending_address_suggestion # None => state'.current_state = VALIDATE_ADDRESS]_vars

\* A suggestion was stored by a failed first validation, was pending in
\* VALIDATE_ADDRESS, and the turn that accepted it cleared it.
C27_Witness ==
    /\ log.handler = "handle_validate_address"
    /\ log.validations = << >>
    /\ state.current_state = CONFIRM_ADDRESS
    /\ state.pending_address_suggestion = None
    /\ state.slots["address_validated"] = PyTrue

\* A suggestion is pending.
C27_Pending == state.pending_address_suggestion # None /\ state.current_state = VALIDATE_ADDRESS

\* The slots after an accepted suggestion: the parsed components in their
\* slots when the suggestion parsed, address_validated true, the rest as it
\* was.
AcceptedSlots(before, after, parsed) ==
    LET written == {parsed[i][1] : i \in 1..Len(parsed)}
    IN /\ after["address_validated"] = PyTrue
       /\ \A i \in 1..Len(parsed) : after[parsed[i][1]] = parsed[i][2]
       /\ \A k \in SlotNames \ (written \cup {"address_validated"}) : after[k] = before[k]

\* C28: in VALIDATE_ADDRESS with a suggestion pending, an affirmative turn
\* (affirmative intent or the word "yes") sets address_validated to true,
\* clears the suggestion and moves to CONFIRM_ADDRESS, runs no validation and
\* leaves the attempt counter alone; the address slots take the parsed
\* components when the suggestion parses and stay as they were when it does
\* not.
C28_AcceptSuggestion ==
    [][(/\ state.current_state = VALIDATE_ADDRESS
        /\ state.pending_address_suggestion # None
        /\ state' # state
        /\ log'.aff \/ log'.yes) =>
           /\ state'.current_state = CONFIRM_ADDRESS
           /\ state'.pending_address_suggestion = None
           /\ log'.validations = << >>
           /\ ~log'.raised
           /\ state'.address_validation_attempts = state.address_validation_attempts
           /\ AcceptedSlots(state.slots, state'.slots, parse_suggested_address(state.pending_address_suggestion))
           /\ state.pending_address_suggestion = SUGG_OK =>
                 /\ state'.slots["address_line1"] = LINE1_A
                 /\ state'.slots["city"] = CITY_A
                 /\ state'.slots["state"] = ST_CA
                 /\ state'.slots["zip_code"] = ZIP_A
           /\ state.pending_address_suggestion = SUGG_BAD =>
                 state'.slots = [state.slots EXCEPT !["address_validated"] = PyTrue]]_vars

\* A suggestion that does not parse was accepted by the word "yes": the
\* address is as the user gave it (city changed by the user, not the city of
\* a parsed suggestion), marked validated, after one validation attempt.
C28_Witness ==
    /\ log.handler = "handle_validate_address"
    /\ log.yes /\ ~log.aff
    /\ log.validations = << >>
    /\ state.current_state = CONFIRM_ADDRESS
    /\ state.slots["address_validated"] = PyTrue
    /\ state.slots["city"] = CITY_B
    /\ state.address_validation_attempts = 1

----------------------------------------------------------------------------
(* The confirm/correct loop of the three phase confirmations *)

\* The handler registered for a confirmation phase.
ConfirmHandler(p) ==
    CASE p = CONFIRM_PATIENT -> "handle_confirm_patient"
      [] p = CONFIRM_INSURANCE -> "handle_confirm_insurance"
      [] p = CONFIRM_ADDRESS -> "handle_confirm_address"

\* Utterances without the word "yes".
NotYes == {w \in YesUtterances \cup NoUtterances : ~HasWord(w, "yes")}

\* The slots with the extracted values in their slots and the rest as it was.
Corrected(before, after, extracted) ==
    LET keys == {extracted[i][1] : i \in 1..Len(extracted)}
    IN /\ \A i \in 1..Len(extracted) : after[extracted[i][1]] = extracted[i][2]
       /\ \A k \in SlotNames \ keys : after[k] = before[k]

\* C29: in CONFIRM_PATIENT, CONFIRM_INSURANCE and CONFIRM_ADDRESS a turn that
\* is not an affirmation (the intent is negative, an update, both or neither,
\* with or without extracted corrections) leaves the phase unchanged, merges
\* the extracted corrections into the slots, changes nothing else of the
\* session and answers with a re-prompt.
C29_ConfirmLoopStays ==
    [][\A p \in ConfirmPhases :
          \A extracted \in ExtractedRecords(p), neg \in BOOLEAN, upd \in BOOLEAN, words \in NotYes :
              (/\ state.current_state = p
               /\ Turn(handle_phase_confirm(Start, AfterConfirm(p), extracted, Intent(FALSE, neg, upd, None), words, ApiUnused),
                       ConfirmHandler(p), FALSE, neg, upd, FALSE)) =>
                  /\ state'.current_state = p
                  /\ Corrected(state.slots, state'.slots, extracted)
                  /\ state' = [state EXCEPT !.slots = state'.slots]
                  /\ log'.writes = << >>
                  /\ log'.validations = << >>
                  /\ ~log'.raised
                  /\ log'.reply # << >>
                  /\ <<patients, change_log, visits, appointments>>' = <<patients, change_log, visits, appointments>>]_vars

\* A negative turn in CONFIRM_ADDRESS corrected the city: the city is in its
\* slot, the phase is still CONFIRM_ADDRESS and the user was asked again.
C29_Witness ==
    /\ log.handler = "handle_confirm_address"
    /\ log.from = CONFIRM_ADDRESS
    /\ log.neg /\ ~log.aff /\ ~log.yes
    /\ state.current_state = CONFIRM_ADDRESS
    /\ state.slots["city"] = CITY_B
    /\ log.reply[Len(log.reply)] = [fn |-> "text", about |-> "is_this_correct_now"]

----------------------------------------------------------------------------
(* Date-of-birth disambiguation: tables with namesakes, a session at its    *)
(* first question, and the answers to the request for a date of birth.      *)

\* Patients named as patient 1: another date of birth, and the same one.
Namesake2 == [P1 EXCEPT !.id = ID_P2, !.date_of_birth = DOB_C, !.phone = PHONE_C, !.city = CITY_B]
Namesake3 == [P1 EXCEPT !.id = ID_NOWHERE, !.phone = PHONE_B, !.address_validated = PyFalse]

NamesakeStores ==
    {<<P1, Namesake2>>, <<Namesake2, P1>>, <<P1, P_OTHER>>, <<P_OTHER, Namesake2, P1>>,
     <<P1, Namesake3>>, <<Namesake3, Namesake2, P1>>, <<P_OTHER>>}

\* Answers to "what is your date of birth": nothing, a date a candidate has,
\* a date nobody named so has, a date in a shape that was not normalised, or
\* something else than a date.
VerifyRecords == {E_none, E_dobA, E_dobC, <<<<"date_of_birth", DOB_BAD>>>>, E_phoneA, E_cityB}

InitVerify ==
    /\ state = [NewConversationState EXCEPT !.current_state = CHECK_PATIENT]
    /\ patients \in NamesakeStores
    /\ change_log = << >>
    /\ visits = << >>
    /\ appointments = InitialAppointments
    /\ providers = ProviderRows
    /\ log = NoTurn
    /\ mrg = MrgIdle
    /\ bk = BkIdle
    /\ fn = FnIdle

\* The turn of handle_verify_dob for one answer.
VerifyDobTurn(extracted) ==
    Turn(handle_verify_dob(Start, extracted), "handle_verify_dob", FALSE, FALSE, FALSE, FALSE)

VerifyDobAnswer ==
    /\ state.current_state = VERIFY_DOB
    /\ \E extracted \in VerifyRecords : VerifyDobTurn(extracted)

NextVerify == IdentityAnswer \/ VerifyDobAnswer

SpecVerify == InitVerify /\ [][NextVerify]_vars

\* The session holds the stored record r as a returning patient.
PromotedTo(st, r) ==
    /\ st.current_state = CONFIRM_RETURNING
    /\ st.is_returning
    /\ st.patient_id = r.id
    /\ \A i \in 1..Len(PATIENT_FIELDS) : st.slots[PATIENT_FIELDS[i]] = r[PATIENT_FIELDS[i]]
    /\ st.pending_name_matches = << >>

\* C30: candidates are pending exactly while the phase is VERIFY_DOB; in
\* VERIFY_DOB a turn that yields a date of birth a candidate has promotes a
\* candidate with that date to CONFIRM_RETURNING, a date no candidate has
\* clears the candidates and moves to COLLECT_PATIENT, and a turn without a
\* date stays in VERIFY_DOB with the candidates kept.
C30_DobDisambiguation ==
    [][/\ state'.pending_name_matches # << >> <=> state'.current_state = VERIFY_DOB
       /\ \A extracted \in VerifyRecords :
             (state.current_state = VERIFY_DOB /\ VerifyDobTurn(extracted)) =>
                 LET dob == KeyGiven(extracted, "date_of_birth")
                     cands == state.pending_name_matches
                     hits == {i \in 1..Len(cands) : cands[i].date_of_birth = dob}
                 IN IF dob \in {None, EmptyStr}
                    THEN state'.current_state = VERIFY_DOB /\ state'.pending_name_matches = cands
                    ELSE IF hits # {}
                    THEN \E i \in hits : PromotedTo(state', cands[i])
                    ELSE /\ state'.current_state = COLLECT_PATIENT
                         /\ state'.pending_name_matches = << >>
                         /\ ~state'.is_returning
                         /\ state'.patient_id = None]_vars

\* The date of birth given in VERIFY_DOB was the second candidate's, and the
\* session is that patient's.
C30_Witness ==
    /\ log.handler = "handle_verify_dob"
    /\ log.from = VERIFY_DOB
    /\ Len(find_patients_by_name(patients, S_Jane, S_Smith)) >= 2
    /\ PromotedTo(state, find_patients_by_name(patients, S_Jane, S_Smith)[2])

\* A date of birth no candidate has sent the session to COLLECT_PATIENT.
C30_NoMatch ==
    /\ log.handler = "handle_verify_dob"
    /\ state.current_state = COLLECT_PATIENT
    /\ state.pending_name_matches = << >>

\* No date of birth: the candidates are still pending.
C30_StillAsking ==
    /\ log.handler = "handle_verify_dob"
    /\ state.current_state = VERIFY_DOB
    /\ Len(state.pending_name_matches) >= 2

----------------------------------------------------------------------------
(* Properties of a session, continued *)

\* C31: is_returning is true exactly when patient_id is set; both are set
\* together, only by an identity turn that found a stored patient, and once
\* set neither changes for the rest of the session.
C31_IdentitySetOnce ==
    [][/\ state'.is_returning <=> state'.patient_id # None
       /\ state.is_returning => state'.is_returning
       /\ state.patient_id # None => state'.patient_id = state.patient_id
       /\ (~state.is_returning /\ state'.is_returning) =>
             /\ log'.handler \in {"handle_check_patient", "handle_verify_dob"}
             /\ \E i \in 1..Len(patients) : patients[i].id = state'.patient_id]_vars

\* A session found its patient at the first question and ended as that
\* patient's.
C31_Witness ==
    /\ state.current_state = END
    /\ state.is_returning
    /\ state.patient_id = ID_P1

----------------------------------------------------------------------------
(* handle_collection on its own: sessions drawn in each collection phase    *)
(* with any part of the phase's fields given, some of them invalid, and     *)
(* answers that give fields of this or another phase, valid or not.         *)

\* The collection phases a session has behind it in a collection phase.
CollectedBefore(p) ==
    CASE p = COLLECT_PATIENT -> {}
      [] p = COLLECT_INSURANCE -> {COLLECT_PATIENT}
      [] p = COLLECT_ADDRESS -> {COLLECT_PATIENT, COLLECT_INSURANCE}
      [] p = COLLECT_MEDICAL -> {COLLECT_PATIENT, COLLECT_INSURANCE, COLLECT_ADDRESS}

\* Values that are present and fail the validity check of their slot.
InvalidValues == [date_of_birth |-> DOB_BAD, zip_code |-> ZIP_BAD]

\* Slots with the fields of have as FilledIn gives them, the spoilt ones of
\* them replaced by an invalid value.
Spoilt(slots, have, spoil) ==
    [k \in SlotNames |-> IF k \in have \cap spoil THEN InvalidValues[k] ELSE slots[k]]

CollectSessions ==
    {[NewConversationState EXCEPT
         !.current_state = p,
         !.slots = Spoilt(FilledIn(UNION {RequiredOf(q) : q \in CollectedBefore(p)} \cup have), have, spoil)] :
       p \in CollectPhases,
       have \in {{}, {"last_name", "date_of_birth"}, {"first_name", "last_name", "date_of_birth"}, {"insurance_payer"},
                 {"city", "zip_code"}, {"address_line1", "state", "zip_code"}},
       spoil \in {{}, {"date_of_birth"}, {"zip_code"}}}

E_dobBad == <<<<"date_of_birth", DOB_BAD>>>>

\* What the extractor returns for the answers: nothing, the fields of a
\* phase in full or in part, a valid or an invalid single field.
CollectRecords ==
    {E_none, E_new, E_phoneA, E_dobBad, E_ins, E_addr, E_cityB, E_zipBad, E_cc, <<<<"insurance_member_id", MEM_A>>>>}

InitCollect ==
    /\ state \in CollectSessions
    /\ patients = InitialPatients
    /\ change_log = << >>
    /\ visits = << >>
    /\ appointments = InitialAppointments
    /\ providers \in ProviderTables
    /\ log = NoTurn
    /\ mrg = MrgIdle
    /\ bk = BkIdle
    /\ fn = FnIdle

\* The turn of handle_collection for one answer; the answer and the session
\* it was given to are kept for the properties.
CollectTurn(extracted, api, ack_ok) ==
    /\ TurnEffects(handle_collection(Start, extracted, api, ack_ok), "handle_collection", FALSE, FALSE, FALSE, FALSE)
    /\ fn' = [op |-> "handle_collection", before |-> state, extracted |-> extracted, ack_ok |-> ack_ok]
    /\ UNCHANGED <<providers, mrg, bk>>

\* Each drawn session is given one answer.
CollectAnswer ==
    /\ state.current_state \in CollectPhases
    /\ fn.op = "none"
    /\ \E extracted \in CollectRecords, api \in ApiOutcomes, ack_ok \in BOOLEAN : CollectTurn(extracted, api, ack_ok)

NextCollect == CollectAnswer

SpecCollect == InitCollect /\ [][NextCollect]_vars

\* The value a slot has once the answer is merged: the answer's, else the
\* one the session held.
RECURSIVE MergedValue(_, _, _)
MergedValue(slots, extracted, key) ==
    IF extracted = << >> THEN slots[key]
    ELSE IF Head(extracted)[1] = key THEN Head(extracted)[2]
    ELSE MergedValue(slots, Tail(extracted), key)

\* Every required field of the phase is valid once the answer is merged.
CompleteAfterMerge(p, slots, extracted) ==
    \A i \in 1..Len(RequirementTable[p]) :
        ~AbsentOrInvalid(RequirementTable[p][i], MergedValue(slots, extracted, RequirementTable[p][i]))

\* C32: a collection turn after whose merge every required field of the
\* phase is valid leaves the phase in that turn: COLLECT_PATIENT for
\* CONFIRM_PATIENT, COLLECT_INSURANCE for CONFIRM_INSURANCE, COLLECT_ADDRESS
\* with the address validation run, COLLECT_MEDICAL with the provider query
\* run; a turn after which a required field is missing or invalid leaves the
\* phase unchanged and runs neither.
C32_CollectionLeavesWhenComplete ==
    fn.op = "handle_collection" =>
        LET p == fn.before.current_state
        IN IF CompleteAfterMerge(p, fn.before.slots, fn.extracted)
           THEN /\ state.current_state # p
                /\ p = COLLECT_PATIENT => state.current_state = CONFIRM_PATIENT
                /\ p = COLLECT_INSURANCE => state.current_state = CONFIRM_INSURANCE
                /\ p = COLLECT_ADDRESS =>
                      (Len(log.validations) = 1 /\ state.current_state \in {VALIDATE_ADDRESS, CONFIRM_ADDRESS})
                /\ p = COLLECT_MEDICAL =>
                      IF fn.ack_ok THEN log.queries >= 1 /\ state.current_state \in {SELECT_PROVIDER, CONFIRM}
                      ELSE log.raised /\ state.current_state = QUERY_PROVIDERS
           ELSE /\ state.current_state = p
                /\ log.writes = << >>
                /\ log.validations = << >>
                /\ log.queries = 0

\* The last address field arrived and the address was validated in the turn.
C32_Witness ==
    /\ log.handler = "handle_collection"
    /\ log.from = COLLECT_ADDRESS
    /\ Len(log.validations) = 1
    /\ state.current_state \in {VALIDATE_ADDRESS, CONFIRM_ADDRESS}

\* Every address field is given but the zip code is not valid: the session
\* is still in COLLECT_ADDRESS.
C32_StaysOnInvalid ==
    /\ log.handler = "handle_collection"
    /\ state.current_state = COLLECT_ADDRESS
    /\ state.slots["zip_code"] = ZIP_BAD
    /\ \A k \in AddressFields : Truthy(state.slots[k])

\* The side-effecting actions a turn performed: address validations,
\* provider queries (one per call of handle_query_providers, whatever the
\* number of tiers it tried) and final saves.
SideEffects == Len(log.validations) + log.queries + (IF log.saves # << >> THEN 1 ELSE 0)

\* The calls of save_patient_data in a turn: each writes the patient first.
PatientWrites == Len(SelectSeq(log.saves, LAMBDA w : w \in {"create_patient", "update_patient"}))

\* C33: a turn performs at most one side-effecting action: one address
\* validation, or one provider query, or one final save with its booking,
\* however many phases the turn went through.
C33_OneSideEffectPerTurn == SideEffects <= 1 /\ PatientWrites <= 1

\* A turn went through two phases and ran the provider query, nothing else.
C33_Witness ==
    /\ Len(log.writes) >= 2
    /\ log.queries = 1
    /\ SideEffects = 1

\* Every slot in the list is an appointment of the provider.
SlotsBelongTo(slots, provider_id) ==
    \A i \in 1..Len(slots) :
        \E j \in 1..Len(appointments) :
            /\ appointments[j].id = slots[i].id
            /\ appointments[j].provider_id = provider_id
            /\ appointments[j].date = slots[i].date
            /\ appointments[j].time = slots[i].time

\* The reply recorded in l ends with a generated answer to the task.
AskedIn(l, task) ==
    /\ l.reply # << >>
    /\ l.reply[Len(l.reply)] = [fn |-> "generate_llm_response", about |-> task]

\* C34: the phase is SELECT_TIME only with a non-empty available_slots list
\* of the selected provider's appointments, and a turn of
\* handle_select_provider that picks a provider without an open slot leaves
\* the phase at SELECT_PROVIDER and asks for another provider, while a pick
\* of a provider with open slots lists them and moves to SELECT_TIME.
C34_SelectTimeNeedsSlots ==
    [][/\ state'.current_state = SELECT_TIME =>
             /\ state'.available_slots # << >>
             /\ state'.selected_provider_id # None
             /\ SlotsBelongTo(state'.available_slots, state'.selected_provider_id)
       /\ (/\ log'.handler = "handle_select_provider"
           /\ appointments' = appointments
           /\ ~AskedIn(log', "could_not_understand_provider")) =>
             /\ \E i \in 1..Len(state.matched_providers) : state.matched_providers[i].id = state'.selected_provider_id
             /\ IF get_available_slots(appointments, state'.selected_provider_id, 10) = << >>
                THEN /\ state'.current_state = SELECT_PROVIDER
                     /\ state'.available_slots = << >>
                     /\ AskedIn(log', "provider_has_no_appointments")
                ELSE /\ state'.current_state = SELECT_TIME
                     /\ log'.reply = <<[fn |-> "generate_response", about |-> SELECT_TIME]>>]_vars

\* A provider whose slots are all taken was picked, and the session waits
\* for another choice.
C34_Witness ==
    /\ log.handler = "handle_select_provider"
    /\ state.selected_provider_id = ID_PROV1
    /\ state.available_slots = << >>
    /\ state.current_state = SELECT_PROVIDER
    /\ AskedIn(log, "provider_has_no_appointments")

\* The provider with open slots was picked.
C34_WitnessSlots ==
    /\ log.handler = "handle_select_provider"
    /\ state.current_state = SELECT_TIME
    /\ state.selected_provider_id = ID_PROV1
    /\ Len(state.available_slots) = 2

\* The place of a phase in the declaration of State.
PhaseRank(q) == CHOOSE i \in 1..Len(StateOrder) : StateOrder[i] = q

\* C35: no step of a session moves the phase to an earlier member of the
\* declared order.
C35_PhaseNeverMovesBack ==
    [][PhaseRank(state.current_state) <= PhaseRank(state'.current_state)]_vars

\* A session went from the address validation back to the address collection.
C35_BackToCollectAddress ==
    /\ log.from = VALIDATE_ADDRESS
    /\ state.current_state = COLLECT_ADDRESS

\* A session has walked the whole order forwards.
C35_Witness ==
    /\ state.current_state = END
    /\ log.from = CONFIRM
    /\ ~state.is_returning

\* The phases a turn of handle_select_provider can end in from the current
\* state, over every answer of the user.
SelectProviderOutcomes ==
    {handle_select_provider(Start, numbers).st.current_state : numbers \in SelectionAnswers}

\* C36: no phase is a dead end.  SELECT_PROVIDER is left only by a turn of
\* handle_select_provider, which changes nothing that its next turn reads
\* but selected_provider_id, selected_provider_name and available_slots; so
\* with the store unchanged the session can reach END from SELECT_PROVIDER
\* only if some answer of the user moves it out of the phase.
C36_NoDeadEnd ==
    state.current_state = SELECT_PROVIDER => SelectProviderOutcomes # {SELECT_PROVIDER}

\* A session that waits in SELECT_PROVIDER while no matched provider has an
\* open slot.
C36_DeadEnd ==
    /\ state.current_state = SELECT_PROVIDER
    /\ state.matched_providers # << >>
    /\ \A i \in 1..Len(state.matched_providers) :
          get_available_slots(appointments, state.matched_providers[i].id, 10) = << >>

----------------------------------------------------------------------------
(* Sessions in which the user corrects a confirmed field with a value that  *)
(* the extractor passes on unchanged and _is_valid_slot rejects:            *)
(* normalize_dob returns a date it cannot read as it is ("5/20"), and       *)
(* zip_code has no validator.                                               *)

\* What extract_slots returns for such a correction, by confirmation phase.
InvalidCorrections(p) ==
    CASE p = CONFIRM_PATIENT -> {E_dobBad}
      [] p = CONFIRM_INSURANCE -> {E_dobBad}
      [] p = CONFIRM_ADDRESS -> {E_zipBad}

InitCorrect ==
    /\ state = NewConversationState
    /\ patients = InitialPatients
    /\ change_log = << >>
    /\ visits = << >>
    /\ appointments = InitialAppointments
    /\ providers = ProviderRows
    /\ log = NoTurn
    /\ mrg = MrgIdle
    /\ bk = BkIdle
    /\ fn = FnIdle

\* A turn in a confirmation phase that brings such a correction.
CorrectAnswer ==
    /\ state.current_state \in ConfirmPhases
    /\ \E extracted \in InvalidCorrections(state.current_state), neg \in BOOLEAN :
          Turn(handle_phase_confirm(Start, AfterConfirm(state.current_state), extracted, Intent(FALSE, neg, neg, None), <<"ok">>, ApiUnused),
               ConfirmHandler(state.current_state), FALSE, neg, neg, FALSE)

NextCorrect == Next \/ CorrectAnswer

SpecCorrect == InitCorrect /\ [][NextCorrect]_vars

\* The required fields of the collection phases a new-patient session has
\* confirmed are all valid.
ConfirmedFieldsValid(s) ==
    /\ PhaseRank(s.current_state) > PhaseRank(CONFIRM_PATIENT) => is_phase_complete(s.slots, COLLECT_PATIENT)
    /\ PhaseRank(s.current_state) > PhaseRank(CONFIRM_INSURANCE) => is_phase_complete(s.slots, COLLECT_INSURANCE)
    /\ PhaseRank(s.current_state) > PhaseRank(CONFIRM_ADDRESS) => is_phase_complete(s.slots, COLLECT_ADDRESS)

\* C37: in a new-patient session that has moved on from CONFIRM_PATIENT the
\* COLLECT_PATIENT required fields are all valid, once it has moved on from
\* CONFIRM_INSURANCE the insurance fields are valid, and once it has moved on
\* from CONFIRM_ADDRESS the address fields are valid.
C37_ConfirmedFieldsValid ==
    ~state.is_returning => ConfirmedFieldsValid(state)

\* The same from the confirmation phase itself on.
C37_ValidFromConfirmation ==
    ~state.is_returning =>
        /\ PhaseRank(state.current_state) >= PhaseRank(CONFIRM_PATIENT) => is_phase_complete(state.slots, COLLECT_PATIENT)
        /\ PhaseRank(state.current_state) >= PhaseRank(CONFIRM_INSURANCE) => is_phase_complete(state.slots, COLLECT_INSURANCE)
        /\ PhaseRank(state.current_state) >= PhaseRank(CONFIRM_ADDRESS) => is_phase_complete(state.slots, COLLECT_ADDRESS)

\* A new patient was saved with a date of birth that is not valid.
C37_InvalidRecordSaved ==
    /\ state.current_state = END
    /\ \E i \in 1..Len(patients) :
          /\ patients[i].id = NewPatientId
          /\ ~_is_valid_slot("date_of_birth", patients[i].date_of_birth)

\* The step ran an address validation that found the address valid.
ValidatedInStep ==
    /\ log'.validations # << >>
    /\ log'.validations[Len(log'.validations)] = "valid"

\* The step accepted the pending address suggestion.
SuggestionAcceptedInStep ==
    /\ state.current_state = VALIDATE_ADDRESS
    /\ state.pending_address_suggestion # None
    /\ log'.aff \/ log'.yes

\* The step loaded the stored record of a returning patient.
RecordLoadedInStep == ~state.is_returning /\ state'.is_returning

\* C38: a step that changes address_line1, city, state or zip_code leaves
\* address_validated true only when the step itself validated the new
\* address, accepted a suggested address or loaded a stored record; so
\* address_validated = true is always about the address the slots hold.
C38_ValidatedMeansUnchanged ==
    [][(AddressFieldsChange /\ state'.slots["address_validated"] = PyTrue) =>
           ValidatedInStep \/ SuggestionAcceptedInStep \/ RecordLoadedInStep]_vars

\* The same for the steps of every handler but handle_confirm_address.
C38_OutsideConfirmAddress ==
    [][(AddressFieldsChange /\ state'.slots["address_validated"] = PyTrue /\ log'.handler # "handle_confirm_address") =>
           ValidatedInStep \/ SuggestionAcceptedInStep \/ RecordLoadedInStep]_vars

\* A validated address was corrected in CONFIRM_ADDRESS, and the session
\* went on to save it as validated.
C38_SavedAsValidated ==
    /\ state.current_state = END
    /\ state.slots["address_validated"] = PyTrue
    /\ state.slots["city"] = CITY_B
    /\ \E i \in 1..Len(patients) :
          /\ patients[i].id \in {NewPatientId, ID_P1}
          /\ patients[i].city = CITY_B
          /\ patients[i].address_validated = PyTrue

\* C39: in every state a selected provider is one of matched_providers, the
\* listed slots are appointments of the selected provider, and a selected
\* appointment is one of the listed slots, with selected_date and
\* selected_time those of that slot.
C39_SelectionConsistency ==
    /\ state.selected_provider_id # None =>
          /\ \E i \in 1..Len(state.matched_providers) :
                /\ state.matched_providers[i].id = state.selected_provider_id
                /\ state.matched_providers[i].name = state.selected_provider_name
          /\ SlotsBelongTo(state.available_slots, state.selected_provider_id)
    /\ state.selected_provider_id = None => state.available_slots = << >>
    /\ state.selected_appointment_id # None =>
          /\ state.selected_provider_id # None
          /\ \E i \in 1..Len(state.available_slots) :
                /\ state.available_slots[i].id = state.selected_appointment_id
                /\ state.available_slots[i].date = state.selected_date
                /\ state.available_slots[i].time = state.selected_time
    /\ state.selected_appointment_id = None => (state.selected_date = None /\ state.selected_time = None)

\* The second listed slot of the selected provider was chosen.
C39_Witness ==
    /\ state.current_state = CONFIRM
    /\ state.selected_provider_id = ID_PROV1
    /\ Len(state.available_slots) = 2
    /\ state.selected_appointment_id = state.available_slots[2].id
    /\ state.selected_date = DATE_2

\* The step wrote a patient, change-log or visit record, or booked an
\* appointment for the patient of the session (another session books for
\* its own patient).
SessionWrites ==
    \/ patients' # patients
    \/ change_log' # change_log
    \/ visits' # visits
    \/ \E i \in 1..Len(appointments) : appointments'[i] # appointments[i] /\ appointments'[i].patient_id # ID_OTHER

\* The step is the final confirmation: handle_confirm, entered in CONFIRM on
\* an affirmative intent or the word "yes", ending in END.
FinalConfirmationStep ==
    /\ state.current_state = CONFIRM
    /\ state'.current_state = END
    /\ log'.handler = "handle_confirm"
    /\ log'.from = CONFIRM
    /\ log'.aff \/ log'.yes

\* C40: the phase becomes END only by the final confirmation, a step writes
\* records or calls a repository write only if it is the final confirmation,
\* and no step that starts in END writes anything; so a session persists at
\* most once.
C40_PersistOnceAtEnd ==
    [][/\ (state.current_state # END /\ state'.current_state = END) => FinalConfirmationStep
       /\ SessionWrites => FinalConfirmationStep
       /\ (log' # log /\ log'.saves # << >>) => FinalConfirmationStep
       /\ state.current_state = END => (~SessionWrites /\ state'.current_state = END /\ (log' # log => log'.saves = << >>))]_vars

\* A new patient was created, the visit recorded and the slot booked in the
\* step that ended the session.
C40_Witness ==
    /\ state.current_state = END
    /\ log.handler = "handle_confirm"
    /\ log.saves = <<"create_patient", "create_visit", "book_ok">>
    /\ Len(patients) = Len(InitialPatients) + 1
    /\ Len(visits) = 1

\* The fallback ran after END.
C40_AfterEnd ==
    /\ state.current_state = END
    /\ log.handler = "no_handler"
    /\ Len(visits) = 1
====
